---------------------------- MODULE Spec2Model ----------------------------
(***************************************************************************)
(* A model of the number-theory core of intalg.py: exact integer roots,    *)
(* the prime sieve and the process-wide prime cache, the primality test,   *)
(* the randomized divisor finders and the factorization work loop.         *)
(*                                                                         *)
(* Python 2 integer `/' and `>>' on the nonnegative operands used here are  *)
(* floor division, written \div below.                                     *)
(***************************************************************************)
EXTENDS Integers, Sequences, FiniteSets, TLC

VARIABLES
  prime_cache,             \* _prime_cache: the cached list of primes
  prime_cache_limit_ary,   \* _prime_cache_limit_ary: one-element list holding L
  small_primes,            \* _small_primes_for_factorize
  call,                    \* the last completed public call: [op, arg, ret]
  pc,                      \* position of the function being executed
  frame,                   \* local variables of the function being executed
  twin,                    \* the same factorize call run beside it in a fresh
                           \* process (empty cache), fed the same finder results
  threads,                 \* the calls running concurrently in threads of one
                           \* process: a sequence of [op, arguments, position,
                           \* locals, result]
  cached_bit_count,        \* MiniIntRandom.cached_bit_count of the random
                           \* source in use: <<bit count, range size>>, with
                           \* <<0, 0>> for (None, None)
  small_prime_limit        \* _SMALL_PRIME_LIMIT, the same all through a run

vars ==
  <<prime_cache, prime_cache_limit_ary, small_primes, call, pc, frame, twin,
    threads, cached_bit_count, small_prime_limit>>

cacheVars == <<prime_cache, prime_cache_limit_ary>>

(***************************************************************************)
(* Bounds of the model.                                                    *)
(***************************************************************************)
MaxRootN == 520      \* sqrt_floor / root_floor arguments n are 0..MaxRootN
MaxRootK == 5        \* root_floor exponents k are 1..MaxRootK
MaxCacheN == 12      \* arguments of the cache-growing calls are 0..MaxCacheN
MaxSize == 6         \* ensure_prime_cache_size / first_primes counts
MaxN == 1000         \* is_prime arguments are -MaxNeg..MaxN
MaxNeg == 6          \* the least argument of a query is -MaxNeg
MaxUpto == 40        \* primes_upto arguments are -MaxNeg..MaxUpto
MaxNext == 300       \* next_prime arguments are -MaxNeg..MaxNext
MaxFactN == 400      \* factorize arguments are 0..MaxFactN
MaxRhoN == 15        \* brent and pollard arguments are 2..MaxRhoN
MaxThreadN == 6      \* arguments of the calls made in threads are 0..MaxThreadN
MaxSlowN == 48       \* finder_slow_factorize arguments are 0..MaxSlowN
MaxRetries == 2      \* a finder returns its argument MaxRetries times in a row at most
\* _SMALL_PRIME_LIMIT is 65536 in the code (line 1285); the model scales it
\* down, so that cofactors at and above the cutoff are within MaxFactN.
SMALL_PRIME_LIMIT == 4

(***************************************************************************)
(* Small helpers standing for Python builtins.                             *)
(***************************************************************************)
abs(a) == IF a < 0 THEN -a ELSE a

cmp(a, b) == IF a < b THEN -1 ELSE IF a > b THEN 1 ELSE 0

min(a, b) == IF a < b THEN a ELSE b

max(a, b) == IF a > b THEN a ELSE b

NoFrame == [fn |-> "none"]

NoCall == [op |-> "none", arg |-> <<>>, ret |-> <<>>, L0 |-> 1]

(***************************************************************************)
(* bit_count(a): the number of bits of abs(a), 1 for 0.                    *)
(***************************************************************************)
RECURSIVE bit_length(_)
bit_length(a) == IF a = 0 THEN 0 ELSE 1 + bit_length(a \div 2)

bit_count(a) == IF bit_length(abs(a)) = 0 THEN 1 ELSE bit_length(abs(a))

(***************************************************************************)
(* sqrt_floor(n): Newton iteration in two half-steps per loop round.       *)
(* A frame holds the locals a, b, c of the code and, once the function has *)
(* returned, its return value ret.                                         *)
(***************************************************************************)
None == "None"

ValueError == "ValueError"

\* A frame whose function has returned: ret holds the value returned.
returned(f) == f @@ ("returned" :> TRUE)

sqrt_half(n, a) == (a + n \div a) \div 2

\* Lines 116-117: the first approximation and the first two half-steps.
sqrt_first(fn, n, k) ==
  LET a0 == 2 ^ ((bit_count(n) - 1) \div 2)
      c1 == sqrt_half(n, a0)
  IN  [fn |-> fn, n |-> n, k |-> k, b |-> a0, c |-> c1, a |-> sqrt_half(n, c1),
       ret |-> None]

\* Line 119: one round of `while a != b'.
sqrt_iter(s) ==
  LET c1 == sqrt_half(s.n, s.a)
  IN  [s EXCEPT !.b = s.a, !.c = c1, !.a = sqrt_half(s.n, c1)]

sqrt_result_takes_c(s) == s.c

\* Lines 120-123: the smaller of the last two candidates.
sqrt_result(s) == IF s.a < s.c THEN s.a ELSE s.c

RECURSIVE sqrt_loop(_)
sqrt_loop(s) == IF s.a # s.b THEN sqrt_loop(sqrt_iter(s)) ELSE sqrt_result(s)

sqrt_small(n) == IF n # 0 THEN 1 ELSE 0

\* sqrt_floor as a function, for its callers (n >= 0).
sqrt_floor(n) ==
  IF n < 4 THEN sqrt_small(n) ELSE sqrt_loop(sqrt_first("sqrt_floor", n, 2))

(***************************************************************************)
(* root_floor(n, k): k = 1 and n <= 1 are immediate, k = 2 is the square   *)
(* root loop, k >= 3 is Newton iteration over [low, high) and then a       *)
(* bisection.  A frame holds low, high, x, y of the code.                  *)
(***************************************************************************)
root_seed_counts_one_bit_more(n, k) ==
  LET c    == bit_count(n)
      b    == c \div k
      low  == IF b > 1 THEN 2 ^ b ELSE 2
      high == IF b > 1 THEN 2 * (2 ^ b) ELSE 4 - (IF c <= 4 THEN 1 ELSE 0)
      k1   == k - 1
      y0   == (k1 * low + n \div (low ^ k1)) \div k
      y    == IF y0 < low \/ y0 >= high THEN (low + high) \div 2 ELSE y0
  IN  [fn |-> "root_floor", n |-> n, k |-> k, low |-> low, high |-> high,
       x |-> low, y |-> y, ret |-> None]

\* Lines 165-189: the interval from the bit length, and the first iterate.
root_seed(n, k) ==
  LET c    == bit_count(n)
      b    == (c - 1) \div k
      low  == IF b > 1 THEN 2 ^ b ELSE 2
      high == IF b > 1 THEN 2 * (2 ^ b) ELSE 4 - (IF c <= 4 THEN 1 ELSE 0)
      x    == low
      k1   == k - 1
      y0   == (k1 * x + n \div (x ^ k1)) \div k
      y    == IF y0 < low \/ y0 >= high THEN (low + high) \div 2 ELSE y0
  IN  [fn |-> "root_floor", n |-> n, k |-> k, low |-> low, high |-> high,
       x |-> x, y |-> y, ret |-> None]

\* Lines 190-207: one round of the `while True' Newton loop, as
\* <<next position, next frame>>.
root_newton(s) ==
  LET n     == s.n
      k     == s.k
      k1    == k - 1
      z     == (k1 * s.y + n \div (s.y ^ k1)) \div k
      mr    == cmp(z ^ k, n)
      low   == IF mr < 0 /\ s.low < z THEN z ELSE s.low
      high  == IF mr > 0 /\ s.high > z THEN z ELSE s.high
      high2 == IF s.y = z /\ high > z + 1 /\ (z + 1) ^ k > n THEN z + 1 ELSE high
  IN  IF mr = 0 THEN <<"done", returned([s EXCEPT !.ret = <<z, TRUE>>])>>
      ELSE IF abs(z - s.y) >= abs(s.x - s.y)
        THEN <<"bisect", [s EXCEPT !.low = low, !.high = high2]>>
        ELSE <<"newton", [s EXCEPT !.low = low, !.high = high, !.x = s.y, !.y = z]>>

\* Lines 216-227: one round of the `while high > low + 1' bisection, or its
\* exit, as <<next position, next frame>>.
root_bisect(s) ==
  IF s.high > s.low + 1
    THEN LET mid == (s.low + s.high) \div 2
             mr  == cmp(mid ^ s.k, s.n)
         IN  IF mr < 0 THEN <<"bisect", [s EXCEPT !.low = mid]>>
             ELSE IF mr > 0 THEN <<"bisect", [s EXCEPT !.high = mid]>>
             ELSE <<"done", returned([s EXCEPT !.ret = <<mid, TRUE>>])>>
    ELSE <<"done", returned([s EXCEPT !.ret = <<s.low, FALSE>>])>>

\* Lines 155-158: the return of the k = 2 branch.
root_sqrt_result(s) ==
  IF s.a < s.c THEN <<s.a, s.a * s.a = s.n>> ELSE <<s.c, s.c * s.c = s.n>>

root_entry_unchecked(n, k) ==
  IF k = 1 \/ n <= 1
    THEN <<"done", [fn |-> "root_floor", n |-> n, k |-> k, ret |-> <<n, TRUE>>]>>
  ELSE IF k = 2 THEN <<"sqrt_loop", sqrt_first("root_floor", n, 2)>>
  ELSE IF n \div (2 ^ k) = 0
    THEN <<"done", [fn |-> "root_floor", n |-> n, k |-> k, ret |-> <<1, FALSE>>]>>
  ELSE <<"newton", root_seed(n, k)>>

\* Lines 141-161: the entry of root_floor, as <<position, frame>>.
root_entry(n, k) ==
  IF k <= 0 \/ n < 0
    THEN <<"done", [fn |-> "root_floor", n |-> n, k |-> k, ret |-> ValueError]>>
  ELSE IF k = 1 \/ n <= 1
    THEN <<"done", [fn |-> "root_floor", n |-> n, k |-> k, ret |-> <<n, TRUE>>]>>
  ELSE IF k = 2 THEN <<"sqrt_loop", sqrt_first("root_floor", n, 2)>>
  ELSE IF n \div (2 ^ k) = 0
    THEN <<"done", [fn |-> "root_floor", n |-> n, k |-> k, ret |-> <<1, FALSE>>]>>
  ELSE <<"newton", root_seed(n, k)>>

\* Lines 104-117: the entry of sqrt_floor, as <<position, frame>>.
sqrt_entry(n) ==
  IF n < 0
    THEN <<"done", [fn |-> "sqrt_floor", n |-> n, k |-> 2, ret |-> ValueError]>>
  ELSE IF n < 4
    THEN <<"done", [fn |-> "sqrt_floor", n |-> n, k |-> 2, ret |-> sqrt_small(n)]>>
    ELSE <<"sqrt_loop", sqrt_first("sqrt_floor", n, 2)>>

\* The exit of the square root loop, in sqrt_floor and in root_floor's k = 2.
sqrt_exit(s) ==
  returned([s EXCEPT !.ret = IF s.fn = "sqrt_floor" THEN sqrt_result(s)
                             ELSE root_sqrt_result(s)])

(***************************************************************************)
(* bisect.bisect_right / bisect_left on a list (indices from 0, the list a *)
(* from 1), computed by halving as the library does.                       *)
(***************************************************************************)
RECURSIVE bisect_right_loop(_, _, _, _)
bisect_right_loop(a, x, lo, hi) ==
  IF lo < hi
    THEN LET mid == (lo + hi) \div 2
         IN  IF x < a[mid + 1] THEN bisect_right_loop(a, x, lo, mid)
             ELSE bisect_right_loop(a, x, mid + 1, hi)
    ELSE lo

bisect_right(a, x) == bisect_right_loop(a, x, 0, Len(a))

RECURSIVE bisect_left_loop(_, _, _, _)
bisect_left_loop(a, x, lo, hi) ==
  IF lo < hi
    THEN LET mid == (lo + hi) \div 2
         IN  IF a[mid + 1] < x THEN bisect_left_loop(a, x, mid + 1, hi)
             ELSE bisect_left_loop(a, x, lo, mid)
    ELSE lo

bisect_left(a, x) == bisect_left_loop(a, x, 0, Len(a))

(***************************************************************************)
(* The sieve of primes_upto.  s maps the index j to the flag of the odd    *)
(* number 2j + 1; n is the argument plus one.                              *)
(***************************************************************************)
\* Line 303: s[ii >> 1 : : i] = a0 * ((((n - ii - 1) / i) >> 1) + 1).  The
\* right-hand side always has the length of the slice.
sieve_mark(s, i, n) ==
  LET start == (i * i) \div 2
      cnt   == (((n - i * i - 1) \div i) \div 2) + 1
  IN  [j \in DOMAIN s |->
         IF j >= start /\ (j - start) % i = 0 /\ (j - start) \div i < cnt
           THEN 0 ELSE s[j]]

\* Lines 299-303: for i in xrange(3, sqrt_floor(n) + 1, 2).
RECURSIVE sieve_loop(_, _, _)
sieve_loop(s, i, n) ==
  IF i >= sqrt_floor(n) + 1 THEN s
  ELSE sieve_loop(IF s[i \div 2] = 1 THEN sieve_mark(s, i, n) ELSE s, i + 2, n)

\* Lines 304-305: the odd numbers still flagged, the first changed to 2.
sieve_list(s, n) ==
  LET odds == [j \in 1..(n \div 2) |-> 2 * (j - 1) + 1]
      kept == SelectSeq(odds, LAMBDA v : s[v \div 2] = 1)
  IN  [kept EXCEPT ![1] = 2]

\* Lines 296-306: the sieve branch of primes_upto, for n >= 2.
primes_sieve(n0) ==
  LET n == n0 + 1
      s == [j \in 0..((n \div 2) - 1) |-> 1]
  IN  sieve_list(sieve_loop(s, 3, n), n)

primes_upto_bisect_left(n, cache, lim) ==
  IF n <= 1 THEN <<>>
  ELSE IF n <= lim THEN SubSeq(cache, 1, bisect_left(cache, n))
  ELSE primes_sieve(n)

\* primes_upto(n) in the cache state (cache, lim).
primes_upto(n, cache, lim) ==
  IF n <= 1 THEN <<>>
  ELSE IF n <= lim THEN SubSeq(cache, 1, bisect_right(cache, n))
  ELSE primes_sieve(n)

(***************************************************************************)
(* The prime cache.  A cache state is the pair <<cache, L>>.               *)
(***************************************************************************)
L == prime_cache_limit_ary[1]

clear_prime_cache == <<<<>>, 1>>

ensure_prime_cache_upto_keeps_list(limit, cache, lim) ==
  IF lim < limit THEN <<cache, limit>> ELSE <<cache, lim>>

ensure_prime_cache_upto_always_rebuilds(limit, cache, lim) ==
  <<primes_upto(limit, cache, lim), limit>>

\* Lines 257-261.
ensure_prime_cache_upto(limit, cache, lim) ==
  IF lim < limit THEN <<primes_upto(limit, cache, lim), limit>>
  ELSE <<cache, lim>>

FIRST_PRIMES ==
  <<2, 3, 5, 7, 11, 13, 17, 19, 23, 29, 31, 37, 41, 43,
    47, 53, 59, 61, 67, 71, 73, 79, 83, 89, 97, 101, 103, 107,
    109, 113, 127, 131, 137, 139, 149, 151, 157, 163, 167, 173, 179, 181,
    191, 193, 197, 199, 211, 223, 227, 229, 233, 239, 241, 251>>

PRIME_COUNTS_STR_127 ==
  <<0, 0, 1, 2, 2, 3, 3, 4, 4, 4, 4, 5, 5, 6, 6, 6, 6, 7, 7, 8,
    8, 8, 8, 9, 9, 9, 9, 9, 9, 10, 10, 11, 11, 11, 11, 11, 11, 12, 12, 12,
    12, 13, 13, 14, 14, 14, 14, 15, 15, 15, 15, 15, 15, 16, 16, 16, 16, 16, 16, 17,
    17, 18, 18, 18, 18, 18, 18, 19, 19, 19, 19, 20, 20, 21, 21, 21, 21, 21, 21, 22,
    22, 22, 22, 23, 23, 23, 23, 23, 23, 24, 24, 24, 24, 24, 24, 24, 24, 25, 25, 25,
    25, 26, 26, 27, 27, 27, 27, 28, 28, 29, 29, 29, 29, 30, 30, 30, 30, 30, 30, 30,
    30, 30, 30, 30, 30, 30, 30>>

LOG2_256_LESS_TABLE ==
  <<0, 0, 256, 405, 512, 594, 661, 718, 768, 811, 850, 885, 917, 947,
    974, 1000, 1024, 1046, 1067, 1087, 1106, 1124, 1141, 1158, 1173, 1188, 1203, 1217,
    1230, 1243, 1256, 1268, 1280, 1291, 1302, 1313, 1323, 1333, 1343, 1353, 1362, 1371,
    1380, 1389, 1397, 1405, 1414, 1421, 1429, 1437, 1444, 1452, 1459, 1466, 1473, 1480,
    1486, 1493, 1499, 1505, 1512, 1518, 1524, 1530, 1536, 1541, 1547, 1552, 1558, 1563,
    1569, 1574, 1579, 1584, 1589, 1594, 1599, 1604, 1609, 1613, 1618, 1623, 1627, 1632,
    1636, 1640, 1645, 1649, 1653, 1657, 1661, 1665, 1670, 1674, 1677, 1681, 1685, 1689,
    1693, 1697, 1700, 1704, 1708, 1711, 1715, 1718, 1722, 1725, 1729, 1732, 1736, 1739,
    1742, 1745, 1749, 1752, 1755, 1758, 1761, 1765, 1768, 1771, 1774, 1777, 1780, 1783,
    1786, 1789, 1792, 1794, 1797, 1800, 1803, 1806, 1808, 1811, 1814, 1817, 1819, 1822,
    1825, 1827, 1830, 1832, 1835, 1838, 1840, 1843, 1845, 1848, 1850, 1853, 1855, 1857,
    1860, 1862, 1865, 1867, 1869, 1872, 1874, 1876, 1879, 1881, 1883, 1885, 1888, 1890,
    1892, 1894, 1896, 1898, 1901, 1903, 1905, 1907, 1909, 1911, 1913, 1915, 1917, 1919,
    1921, 1924, 1926, 1928, 1930, 1932, 1933, 1935, 1937, 1939, 1941, 1943, 1945, 1947,
    1949, 1951, 1953, 1954, 1956, 1958, 1960, 1962, 1964, 1965, 1967, 1969, 1971, 1973,
    1974, 1976, 1978, 1980, 1981, 1983, 1985, 1986, 1988, 1990, 1992, 1993, 1995, 1997,
    1998, 2000, 2001, 2003, 2005, 2006, 2008, 2010, 2011, 2013, 2014, 2016, 2017, 2019,
    2021, 2022, 2024, 2025, 2027, 2028, 2030, 2031, 2033, 2034, 2036, 2037, 2039, 2040,
    2042, 2043, 2045, 2046>>

FIRST_PRIMES_MAX == FIRST_PRIMES[Len(FIRST_PRIMES)]

\* log2_256_less(a) for a >= 1: at most 256 * log2(a).
log2_256_less(a) ==
  IF a < 256 THEN LOG2_256_LESS_TABLE[a + 1]
  ELSE LET d == bit_count(a) - 8
       IN  LOG2_256_LESS_TABLE[(a \div (2 ^ d)) + 1] + d * 256

LOG2_256_MORE_TABLE ==
  <<0, 0, 256, 406, 512, 595, 662, 719, 768, 812, 851, 886, 918, 948,
    975, 1001, 1024, 1047, 1068, 1088, 1107, 1125, 1142, 1159, 1174, 1189, 1204, 1218,
    1231, 1244, 1257, 1269, 1280, 1292, 1303, 1314, 1324, 1334, 1344, 1354, 1363, 1372,
    1381, 1390, 1398, 1406, 1415, 1422, 1430, 1438, 1445, 1453, 1460, 1467, 1474, 1481,
    1487, 1494, 1500, 1506, 1513, 1519, 1525, 1531, 1536, 1542, 1548, 1553, 1559, 1564,
    1570, 1575, 1580, 1585, 1590, 1595, 1600, 1605, 1610, 1614, 1619, 1624, 1628, 1633,
    1637, 1641, 1646, 1650, 1654, 1658, 1662, 1666, 1671, 1675, 1678, 1682, 1686, 1690,
    1694, 1698, 1701, 1705, 1709, 1712, 1716, 1719, 1723, 1726, 1730, 1733, 1737, 1740,
    1743, 1746, 1750, 1753, 1756, 1759, 1762, 1766, 1769, 1772, 1775, 1778, 1781, 1784,
    1787, 1790, 1792, 1795, 1798, 1801, 1804, 1807, 1809, 1812, 1815, 1818, 1820, 1823,
    1826, 1828, 1831, 1833, 1836, 1839, 1841, 1844, 1846, 1849, 1851, 1854, 1856, 1858,
    1861, 1863, 1866, 1868, 1870, 1873, 1875, 1877, 1880, 1882, 1884, 1886, 1889, 1891,
    1893, 1895, 1897, 1899, 1902, 1904, 1906, 1908, 1910, 1912, 1914, 1916, 1918, 1920,
    1922, 1925, 1927, 1929, 1931, 1933, 1934, 1936, 1938, 1940, 1942, 1944, 1946, 1948,
    1950, 1952, 1954, 1955, 1957, 1959, 1961, 1963, 1965, 1966, 1968, 1970, 1972, 1974,
    1975, 1977, 1979, 1981, 1982, 1984, 1986, 1987, 1989, 1991, 1993, 1994, 1996, 1998,
    1999, 2001, 2002, 2004, 2006, 2007, 2009, 2011, 2012, 2014, 2015, 2017, 2018, 2020,
    2022, 2023, 2025, 2026, 2028, 2029, 2031, 2032, 2034, 2035, 2037, 2038, 2040, 2041,
    2043, 2044, 2046, 2047, 2048>>

\* log2_256_more(a) for a >= 0: at least 256 * log2(a).
log2_256_more(a) ==
  IF a <= 1 THEN 0
  ELSE IF a < 256 THEN LOG2_256_MORE_TABLE[a + 1]
  ELSE LET d == bit_count(a) - 8
           m == a \div (2 ^ d)
       IN  LOG2_256_MORE_TABLE[m + (IF m * (2 ^ d) # a THEN 1 ELSE 0) + 1] + d * 256

\* Line 457 on x = a * log2_256_more(b): (x * 27076062 + 9999999999) / 10 ** 10,
\* the exact quotient, computed on the base-10000 digits of x and of the
\* constants (27076062 = 2707 * 10 ** 4 + 6062, 9999999999 = 99 * 10 ** 8 +
\* 9999 * 10 ** 4 + 9999) so that no intermediate value leaves 32 bits.
log_more_scaled(x) ==
  LET x1 == x \div 10000
      x0 == x % 10000
      t0 == x0 * 6062 + 9999
      t1 == x1 * 6062 + x0 * 2707 + 9999 + (t0 \div 10000)
      t2 == x1 * 2707 + 99 + (t1 \div 10000)
  IN  t2 \div 100

\* log_more(a, b), at least a * ln(b), for b >= 0.  The constants of the
\* b == 2 branch, 69314718055994531 and 10 ** 17, are written as expressions.
log_more(a, b) ==
  IF a <= 0 \/ b = 1 THEN 0
  ELSE IF b = 2
    THEN (a * (69314718 * (10 ^ 9) + 55994531) + (10 ^ 17 - 1)) \div (10 ^ 17)
  ELSE log_more_scaled(a * log2_256_more(b))

prime_idx_more_single_log(i) ==
  IF i < Len(FIRST_PRIMES)
    THEN (IF i < 1 THEN 2 ELSE FIRST_PRIMES[i + 1])
    ELSE log_more(i, i)

\* prime_idx_more(i): a number at least the i-th prime.
prime_idx_more(i) ==
  IF i < Len(FIRST_PRIMES)
    THEN (IF i < 1 THEN 2 ELSE FIRST_PRIMES[i + 1])
    ELSE log_more(i, log_more(i, i))

AssertionError == "AssertionError"

\* ensure_prime_cache_size(n): <<None or the failed assertion, cache, L>>.
ensure_prime_cache_size(n, cache, lim) ==
  IF Len(cache) < n
    THEN LET st == ensure_prime_cache_upto(prime_idx_more(n), cache, lim)
         IN  <<IF Len(st[1]) >= n THEN None ELSE AssertionError, st[1], st[2]>>
    ELSE <<None, cache, lim>>

RECURSIVE shift_limit_past(_, _)
shift_limit_past(limit, n) ==
  IF limit <= n THEN shift_limit_past(2 * limit, n) ELSE limit

\* Lines 682-683 and 710-711: while limit < n: limit <<= 1.
RECURSIVE shift_limit(_, _)
shift_limit(limit, n) == IF limit < n THEN shift_limit(2 * limit, n) ELSE limit

prime_index_skips_compare(n, limit, cache, lim) ==
  LET st == IF n > lim
              THEN ensure_prime_cache_upto(shift_limit(limit, n), cache, lim)
              ELSE <<cache, lim>>
      c  == st[1]
      i  == bisect_left(c, n)
  IN  <<IF i >= Len(c) THEN None ELSE i, st[1], st[2]>>

\* prime_index(n, limit): <<return value, cache, L>>.
prime_index(n, limit, cache, lim) ==
  LET st == IF n > lim
              THEN ensure_prime_cache_upto(shift_limit(limit, n), cache, lim)
              ELSE <<cache, lim>>
      c  == st[1]
      i  == bisect_left(c, n)
  IN  <<IF i >= Len(c) \/ c[i + 1] # n THEN None ELSE i, st[1], st[2]>>

prime_count_cached_always_rebuilds(n, limit, cache, lim) ==
  LET lm == shift_limit(limit, n)
      c  == primes_upto(lm, cache, lim)
  IN  <<bisect_right(c, n), c, lm>>

prime_count_cached_bisect_left(n, limit, cache, lim) ==
  IF n > lim
    THEN LET lm == shift_limit(limit, n)
             c  == primes_upto(lm, cache, lim)
         IN  <<bisect_left(c, n), c, lm>>
    ELSE <<bisect_left(cache, n), cache, lim>>

\* prime_count_cached(n, limit): <<return value, cache, L>>.
prime_count_cached(n, limit, cache, lim) ==
  IF n > lim
    THEN LET lm == shift_limit(limit, n)
             c  == primes_upto(lm, cache, lim)
         IN  <<bisect_right(c, n), c, lm>>
    ELSE <<bisect_right(cache, n), cache, lim>>

(***************************************************************************)
(* is_prime(n) with accuracy None: the cache lookup for n <= L, else the   *)
(* Miller-Rabin test with the bases of n's bracket.                        *)
(***************************************************************************)
\* pow(b, e, m), the built-in modular power, by squaring.
RECURSIVE pow_mod(_, _, _)
pow_mod(b, e, m) ==
  IF e = 0 THEN 1 % m
  ELSE LET h == pow_mod(b, e \div 2, m)
           q == (h * h) % m
       IN  IF e % 2 = 1 THEN (q * (b % m)) % m ELSE q

\* Lines 890-892: s with n1 = 2^s * odd.
RECURSIVE low_zero_bits(_)
low_zero_bits(n1) == IF n1 % 2 = 1 THEN 0 ELSE 1 + low_zero_bits(n1 \div 2)

\* Lines 900-903: for _ in xrange(cnt): if a in h: break; a = (a * a) % n.
RECURSIVE mr_square_loop(_, _, _)
mr_square_loop(a, cnt, n) ==
  IF cnt <= 0 \/ a = 1 \/ a = n - 1 THEN a
  ELSE mr_square_loop((a * a) % n, cnt - 1, n)

mr_base_passes_no_squaring(b, n, s, n2) ==
  pow_mod(b, n2, n) \in {1, n - 1}

\* Lines 897-905 for one base b: FALSE when the code returns False.
mr_base_passes(b, n, s, n2) ==
  LET a == pow_mod(b, n2, n)
  IN  IF a \in {1, n - 1} THEN TRUE
      ELSE mr_square_loop((a * a) % n, s - 1, n) = n - 1

\* Lines 840-855: the bases of the brackets an n below 2^31 falls in.
mr_bases(n) ==
  IF n < 1373653 THEN <<2, 3>>
  ELSE IF n < 316349281 THEN <<11000544, 31481107>>
  ELSE <<2, 1005905886, 1340600841>>

\* Lines 888-907.
miller_rabin(n) ==
  LET n1 == n - 1
      s  == low_zero_bits(n1)
      n2 == n1 \div (2 ^ s)
      bs == mr_bases(n)
  IN  IF s # 0 THEN \A j \in 1..Len(bs) : mr_base_passes(bs[j], n, s, n2)
      ELSE TRUE

is_prime_lookup_bisect_right(n, cache) ==
  LET i == bisect_right(cache, n)
  IN  i < Len(cache) /\ cache[i + 1] = n

\* Lines 834-836: the answer from the cache.
is_prime_lookup(n, cache) ==
  LET i == bisect_left(cache, n)
  IN  i < Len(cache) /\ cache[i + 1] = n

\* is_prime(n0) in the cache state (cache, lim).
is_prime(n0, cache, lim) ==
  IF n0 < 2 /\ n0 > -2 THEN FALSE
  ELSE LET n == IF n0 < 2 THEN -n0 ELSE n0
       IN  IF n % 2 = 0 THEN n = 2
           ELSE IF n <= lim THEN is_prime_lookup(n, cache)
           ELSE IF n = 3 THEN TRUE
           ELSE miller_rabin(n)

(***************************************************************************)
(* next_prime(n).                                                          *)
(***************************************************************************)
RECURSIVE next_prime_loop_skips(_, _, _)
next_prime_loop_skips(n, cache, lim) ==
  IF is_prime(n, cache, lim) THEN n ELSE next_prime_loop_skips(n + 6, cache, lim)

\* Lines 931-937: while 1, testing n, then n + 2, then n + 6, ...
RECURSIVE next_prime_loop(_, _, _)
next_prime_loop(n, cache, lim) ==
  IF is_prime(n, cache, lim) THEN n
  ELSE IF is_prime(n + 2, cache, lim) THEN n + 2
  ELSE next_prime_loop(n + 6, cache, lim)

next_prime(n0, cache, lim) ==
  IF n0 <= 1 THEN 2
  ELSE IF n0 < FIRST_PRIMES_MAX
    THEN FIRST_PRIMES[bisect_right(FIRST_PRIMES, n0) + 1]
  ELSE LET n1 == n0 + 1 + (n0 % 2)
           k  == n1 % 6
           n2 == IF k = 3 THEN n1 + 2 ELSE n1
       IN  IF is_prime(n2, cache, lim) THEN n2
           ELSE IF k # 1 /\ is_prime(n2 + 2, cache, lim) THEN n2 + 2
           ELSE next_prime_loop((IF k # 1 THEN n2 + 2 ELSE n2) + 4, cache, lim)

(***************************************************************************)
(* first_primes(i) and prime_count_more(n, accuracy).                      *)
(***************************************************************************)
first_primes_skips_cache(i, cache, lim) ==
  IF i <= Len(FIRST_PRIMES) THEN SubSeq(FIRST_PRIMES, 1, i)
  ELSE SubSeq(primes_sieve(prime_idx_more(i)), 1, i)

\* first_primes(i) for i >= 0.
first_primes(i, cache, lim) ==
  IF i <= Len(FIRST_PRIMES) THEN SubSeq(FIRST_PRIMES, 1, i)
  ELSE IF i <= Len(cache) THEN SubSeq(cache, 1, i)
  ELSE SubSeq(primes_sieve(prime_idx_more(i)), 1, i)

NameError == "NameError"

\* Lines 758-760: the regime of the closed-form bound.
pcm_closed_form(n, accuracy) ==
  \/ accuracy >= 100000
  \/ n > 302976
  \/ (accuracy >= 50000 /\ n > 546)
  \/ (accuracy >= 10000 /\ n > 11775)
  \/ (accuracy >= 5000 /\ n > 48382)
  \/ (accuracy >= 4000 /\ n > 70143)

\* prime_count_more(n, accuracy).  Its last line calls prime_count, a name
\* the module does not define.
prime_count_more(n, accuracy, cache, lim) ==
  IF accuracy < 3000 THEN ValueError
  ELSE IF n < 0 THEN 0
  ELSE IF n < 127 THEN PRIME_COUNTS_STR_127[n + 1]
  ELSE IF pcm_closed_form(n, accuracy)
    THEN LET v == (n * 5540) \div (log2_256_less(n) * 15 - 6094)
         IN  IF 24107 <= n /\ n <= 60174 THEN v + 3 ELSE v
  ELSE IF n <= lim THEN bisect_right(cache, n)
  ELSE NameError

(***************************************************************************)
(* Factorization.                                                          *)
(***************************************************************************)
SMALL_PRIME_CUTOFF_next_square == (small_prime_limit + 2) ^ 2

\* Line 1287.
SMALL_PRIME_CUTOFF == (small_prime_limit + 1) ^ 2

\* list.sort(): the ascending arrangement, by insertion.
RECURSIVE insert_sorted(_, _)
insert_sorted(q, v) ==
  IF q = <<>> THEN <<v>>
  ELSE IF v < q[1] THEN <<v>> \o q
  ELSE <<q[1]>> \o insert_sorted(Tail(q), v)

RECURSIVE sort(_)
sort(q) == IF q = <<>> THEN <<>> ELSE insert_sorted(sort(Tail(q)), q[1])

\* while not (n % p): ps.append(p); n /= p   as <<n, ps>>.
RECURSIVE divide_out(_, _, _)
divide_out(n, p, ps) ==
  IF n % p = 0 THEN divide_out(n \div p, p, Append(ps, p)) ELSE <<n, ps>>

\* Lines 1356-1364: the factor 2, on [n, q, ps, pds].
strip_twos(st) ==
  IF st.q >= 2 /\ st.n % 2 = 0
    THEN LET r == divide_out(st.n, 2, st.ps)
         IN  [n |-> r[1], q |-> sqrt_floor(r[1]), ps |-> r[2],
              pds |-> Append(st.pds, 2)]
    ELSE st

\* Lines 1365-1375: for p in _small_primes_for_factorize, from index j.
RECURSIVE trial_division(_, _, _)
trial_division(st, small, j) ==
  IF j > Len(small) \/ small[j] > st.q THEN st
  ELSE IF st.n % small[j] = 0
    THEN LET r == divide_out(st.n, small[j], st.ps)
         IN  trial_division([n |-> r[1], q |-> sqrt_floor(r[1]), ps |-> r[2],
                             pds |-> Append(st.pds, small[j])], small, j + 1)
  ELSE trial_division(st, small, j + 1)

\* Line 1354: the table is filled when it is empty, with the slice [1:].
small_primes_filled(small, cache, lim) ==
  IF small = <<>>
    THEN LET q == primes_upto(small_prime_limit, cache, lim)
         IN  SubSeq(q, 2, Len(q))
  ELSE small

\* The locals of factorize; seed is the seed of the MiniIntRandom created on
\* line 1398, 0 while none has been created; retries counts the passes of
\* `while d == n' since the last split.
fact_frame(n0, n, i, ps, pds, stack, seed, ret) ==
  [fn |-> "factorize", n0 |-> n0, n |-> n, i |-> i, ps |-> ps, pds |-> pds,
   stack |-> stack, seed |-> seed, retries |-> 0, ret |-> ret]

\* Lines 1320-1399: factorize(n) up to the work loop, in the cache state
\* (cache, lim) with the table small: <<position, frame, table>>.
fact_entry(n, cache, lim, small) ==
  IF n <= 0
    THEN <<"done", fact_frame(n, n, 0, <<>>, <<>>, <<>>, 0, ValueError), small>>
  ELSE IF n = 1
    THEN <<"done", fact_frame(n, n, 0, <<>>, <<>>, <<>>, 0, <<>>), small>>
  ELSE IF is_prime(n, cache, lim)
    THEN <<"done", fact_frame(n, n, 0, <<>>, <<>>, <<>>, 0, <<n>>), small>>
  ELSE
    LET sm == small_primes_filled(small, cache, lim)
        s0 == [n |-> n, q |-> sqrt_floor(n), ps |-> <<>>, pds |-> <<>>]
        st == trial_division(strip_twos(s0), sm, 1)
    IN  IF st.n = 1
          THEN <<"done", fact_frame(n, 1, 0, st.ps, st.pds, <<>>, 0, sort(st.ps)), sm>>
        ELSE IF st.n < SMALL_PRIME_CUTOFF
          THEN <<"done", fact_frame(n, st.n, 0, Append(st.ps, st.n), st.pds, <<>>,
                                    0, sort(Append(st.ps, st.n))), sm>>
        ELSE <<"fact_pop", fact_frame(n, st.n, 0, st.ps, st.pds,
                                      <<<<st.n, Len(st.pds)>>>>, st.n, None), sm>>

\* Lines 1408-1412: for i in xrange(i, len(pds)), as <<n, ps>>.
RECURSIVE propagate(_, _, _, _)
propagate(n, ps, pds, i) ==
  IF i >= Len(pds) THEN <<n, ps>>
  ELSE LET r == divide_out(n, pds[i + 1], ps)
       IN  propagate(r[1], r[2], pds, i + 1)

fact_pop_unpropagated(f) ==
  IF f.stack = <<>> THEN <<"done", returned([f EXCEPT !.ret = sort(f.ps)])>>
  ELSE LET top == f.stack[Len(f.stack)]
       IN  <<"fact_test", [f EXCEPT !.stack = SubSeq(f.stack, 1, Len(f.stack) - 1),
                                    !.n = top[1], !.i = top[2]]>>

\* Lines 1400-1417: `while stack', the pop and the propagation.
fact_pop(f) ==
  IF f.stack = <<>> THEN <<"done", returned([f EXCEPT !.ret = sort(f.ps)])>>
  ELSE LET top == f.stack[Len(f.stack)]
           r   == propagate(top[1], f.ps, f.pds, top[2])
           g   == [f EXCEPT !.stack = SubSeq(f.stack, 1, Len(f.stack) - 1),
                            !.n = r[1], !.i = top[2], !.ps = r[2]]
       IN  IF r[1] = 1 THEN <<"fact_pop", g>> ELSE <<"fact_test", g>>

\* Lines 1419-1422: the head of `while 1'.
fact_test(f, cache, lim) ==
  IF f.n < SMALL_PRIME_CUTOFF \/ is_prime(f.n, cache, lim)
    THEN <<"fact_pop", [f EXCEPT !.ps = Append(f.ps, f.n),
                                 !.pds = Append(f.pds, f.n)]>>
    ELSE <<"fact_find", f>>

fact_split_keeps_cofactor(f, d) ==
  IF d = f.n THEN <<"fact_find", [f EXCEPT !.retries = f.retries + 1]>>
  ELSE <<"fact_test", [f EXCEPT !.n = d, !.retries = 0,
           !.stack = Append(f.stack, <<f.n, Len(f.pds)>>)]>>

fact_split_takes_n(f, d) ==
  LET m == f.n \div d
  IN  IF d > m
        THEN <<"fact_test", [f EXCEPT !.n = m, !.retries = 0,
                 !.stack = Append(f.stack, <<d, Len(f.pds)>>)]>>
        ELSE <<"fact_test", [f EXCEPT !.n = d, !.retries = 0,
                 !.stack = Append(f.stack, <<m, Len(f.pds)>>)]>>

\* Lines 1423-1435: the finder returned d.
fact_split(f, d) ==
  IF d = f.n THEN <<"fact_find", [f EXCEPT !.retries = f.retries + 1]>>
  ELSE LET m == f.n \div d
       IN  IF d > m
             THEN <<"fact_test", [f EXCEPT !.n = m, !.retries = 0,
                      !.stack = Append(f.stack, <<d, Len(f.pds)>>)]>>
             ELSE <<"fact_test", [f EXCEPT !.n = d, !.retries = 0,
                      !.stack = Append(f.stack, <<m, Len(f.pds)>>)]>>

\* One step of the work loop from position p, the finder returning d.
fact_step(p, f, d, cache, lim) ==
  IF p = "fact_pop" THEN fact_pop(f)
  ELSE IF p = "fact_test" THEN fact_test(f, cache, lim)
  ELSE IF p = "fact_find" THEN fact_split(f, d)
  ELSE <<p, f>>

\* What a divisor_finder may return for a composite k: k itself or a
\* nontrivial divisor of k.
FinderResults(k) == {d \in 2..k : k % d = 0}

(***************************************************************************)
(* yield_slow_factorize(n), n >= 1: trial division, as the list it yields. *)
(***************************************************************************)
\* Lines 996-1002: one trial of d, on [n, q, out].
slow_trial(st, d) ==
  IF st.n % d = 0
    THEN LET r == divide_out(st.n, d, st.out)
         IN  [n |-> r[1], q |-> sqrt_floor(r[1]), out |-> r[2]]
    ELSE st

\* Lines 995-1013: while d <= q, with d += 2 and d += 4 in turn.
RECURSIVE slow_loop(_, _)
slow_loop(st, d) ==
  IF d > st.q THEN st
  ELSE LET s1 == slow_trial(st, d)
       IN  IF d + 2 > s1.q THEN s1
           ELSE slow_loop(slow_trial(s1, d + 2), d + 6)

yield_slow_factorize(n) ==
  LET r2 == divide_out(n, 2, <<>>)
      r3 == divide_out(r2[1], 3, r2[2])
      st == slow_loop([n |-> r3[1], q |-> sqrt_floor(r3[1]), out |-> r3[2]], 5)
  IN  IF st.n > 1 THEN Append(st.out, st.n) ELSE st.out

(***************************************************************************)
(* finder_slow_factorize(n): a frame holds numbers_to_factorize, n, ps.    *)
(***************************************************************************)
fsf_frame(n0, n, ps, stack, ret) ==
  [fn |-> "finder_slow_factorize", n0 |-> n0, n |-> n, ps |-> ps,
   stack |-> stack, retries |-> 0, ret |-> ret]

\* Lines 1255-1264.
fsf_entry(n) ==
  IF n < 1 THEN <<"done", fsf_frame(n, n, <<>>, <<>>, ValueError)>>
  ELSE IF n = 1 THEN <<"done", fsf_frame(n, n, <<>>, <<>>, <<>>)>>
  ELSE <<"fsf_pop", fsf_frame(n, n, <<>>, <<n>>, None)>>

\* Lines 1265-1266 and 1274-1275.
fsf_pop(f) ==
  IF f.stack = <<>> THEN <<"done", returned([f EXCEPT !.ret = sort(f.ps)])>>
  ELSE <<"fsf_test", [f EXCEPT !.n = f.stack[Len(f.stack)],
                               !.stack = SubSeq(f.stack, 1, Len(f.stack) - 1)]>>

\* Lines 1267 and 1273.
fsf_test(f, cache, lim) ==
  IF is_prime(f.n, cache, lim)
    THEN <<"fsf_pop", [f EXCEPT !.ps = Append(f.ps, f.n)]>>
    ELSE <<"fsf_find", f>>

\* Lines 1268-1272: the finder returned d.
fsf_split(f, d) ==
  IF d = f.n THEN <<"fsf_find", [f EXCEPT !.retries = f.retries + 1]>>
  ELSE <<"fsf_test", [f EXCEPT !.stack = Append(f.stack, d), !.n = f.n \div d,
                               !.retries = 0]>>

(***************************************************************************)
(* The public operations on the process-wide cache, executed one at a      *)
(* time: a call runs from `idle' to `returned', where call holds what was  *)
(* called, what it returned and the limit L0 it started from.              *)
(***************************************************************************)
DefaultLimit == 256

Limits == (1..MaxCacheN) \cup {DefaultLimit}

Accuracies == {3000, 4000, 5000, 10000, 50000, 100000}

Init ==
  /\ prime_cache = <<>>
  /\ prime_cache_limit_ary = <<1>>
  /\ small_primes = <<>>
  /\ small_prime_limit = SMALL_PRIME_LIMIT
  /\ call = NoCall
  /\ pc = "idle"
  /\ frame = NoFrame
  /\ twin = NoFrame
  /\ threads = <<>>
  /\ cached_bit_count = <<0, 0>>

Returns(op, arg, ret) ==
  /\ pc' = "returned"
  /\ call' = [op |-> op, arg |-> arg, ret |-> ret, L0 |-> L]

SetCache(st) ==
  /\ prime_cache' = st[1]
  /\ prime_cache_limit_ary' = [prime_cache_limit_ary EXCEPT ![1] = st[2]]

ClearPrimeCache ==
  /\ pc = "idle"
  /\ SetCache(clear_prime_cache)
  /\ Returns("clear_prime_cache", <<>>, None)
  /\ UNCHANGED <<small_primes, small_prime_limit, frame, twin, threads, cached_bit_count>>

EnsurePrimeCacheUpto(limit) ==
  /\ pc = "idle"
  /\ SetCache(ensure_prime_cache_upto(limit, prime_cache, L))
  /\ Returns("ensure_prime_cache_upto", <<limit>>, None)
  /\ UNCHANGED <<small_primes, small_prime_limit, frame, twin, threads, cached_bit_count>>

EnsurePrimeCacheSize(n) ==
  /\ pc = "idle"
  /\ LET r == ensure_prime_cache_size(n, prime_cache, L)
     IN  /\ SetCache(<<r[2], r[3]>>)
         /\ Returns("ensure_prime_cache_size", <<n>>, r[1])
  /\ UNCHANGED <<small_primes, small_prime_limit, frame, twin, threads, cached_bit_count>>

PrimeIndex(n, limit) ==
  /\ pc = "idle"
  /\ LET r == prime_index(n, limit, prime_cache, L)
     IN  /\ SetCache(<<r[2], r[3]>>)
         /\ Returns("prime_index", <<n, limit>>, r[1])
  /\ UNCHANGED <<small_primes, small_prime_limit, frame, twin, threads, cached_bit_count>>

PrimeCountCached(n, limit) ==
  /\ pc = "idle"
  /\ LET r == prime_count_cached(n, limit, prime_cache, L)
     IN  /\ SetCache(<<r[2], r[3]>>)
         /\ Returns("prime_count_cached", <<n, limit>>, r[1])
  /\ UNCHANGED <<small_primes, small_prime_limit, frame, twin, threads, cached_bit_count>>

PrimeCountMore(n, accuracy) ==
  /\ pc = "idle"
  /\ Returns("prime_count_more", <<n, accuracy>>,
             prime_count_more(n, accuracy, prime_cache, L))
  /\ UNCHANGED <<cacheVars, small_primes, small_prime_limit, frame, twin, threads, cached_bit_count>>

IsPrime(n) ==
  /\ pc = "idle"
  /\ Returns("is_prime", <<n>>, is_prime(n, prime_cache, L))
  /\ UNCHANGED <<cacheVars, small_primes, small_prime_limit, frame, twin, threads, cached_bit_count>>

NextPrime(n) ==
  /\ pc = "idle"
  /\ Returns("next_prime", <<n>>, next_prime(n, prime_cache, L))
  /\ UNCHANGED <<cacheVars, small_primes, small_prime_limit, frame, twin, threads, cached_bit_count>>

PrimesUpto(n) ==
  /\ pc = "idle"
  /\ Returns("primes_upto", <<n>>, primes_upto(n, prime_cache, L))
  /\ UNCHANGED <<cacheVars, small_primes, small_prime_limit, frame, twin, threads, cached_bit_count>>

FirstPrimes(i) ==
  /\ pc = "idle"
  /\ Returns("first_primes", <<i>>, first_primes(i, prime_cache, L))
  /\ UNCHANGED <<cacheVars, small_primes, small_prime_limit, frame, twin, threads, cached_bit_count>>

\* factorize(n) is called here, and beside it in a fresh process.
FactorizeCall(n) ==
  /\ pc = "idle"
  /\ LET e == fact_entry(n, prime_cache, L, small_primes)
         t == fact_entry(n, <<>>, 1, <<>>)
     IN  /\ pc' = e[1]
         /\ frame' = e[2]
         /\ small_primes' = e[3]
         /\ twin' = [pc |-> t[1], frame |-> t[2]]
  /\ UNCHANGED <<cacheVars, call, threads, cached_bit_count, small_prime_limit>>

\* A step of the work loop that calls no finder, in both processes.
FactorizeStep ==
  /\ pc \in {"fact_pop", "fact_test"}
  /\ LET e == fact_step(pc, frame, 0, prime_cache, L)
         t == fact_step(twin.pc, twin.frame, 0, <<>>, 1)
     IN  /\ pc' = e[1]
         /\ frame' = e[2]
         /\ twin' = [pc |-> t[1], frame |-> t[2]]
  /\ UNCHANGED <<cacheVars, small_primes, small_prime_limit, call, threads, cached_bit_count>>

\* The divisor finder returns d; the finder of the other process, in the
\* same random state, returns the same.
FactorizeFind(d) ==
  /\ pc = "fact_find"
  /\ d \in FinderResults(frame.n)
  /\ d = frame.n => frame.retries < MaxRetries
  /\ LET e == fact_step(pc, frame, d, prime_cache, L)
         t == fact_step(twin.pc, twin.frame, d, <<>>, 1)
     IN  /\ pc' = e[1]
         /\ frame' = e[2]
         /\ twin' = [pc |-> t[1], frame |-> t[2]]
  /\ UNCHANGED <<cacheVars, small_primes, small_prime_limit, call, threads, cached_bit_count>>

FinderSlowFactorizeCall(n) ==
  /\ pc = "idle"
  /\ pc' = fsf_entry(n)[1]
  /\ frame' = fsf_entry(n)[2]
  /\ UNCHANGED <<cacheVars, small_primes, small_prime_limit, call, twin, threads, cached_bit_count>>

FinderSlowFactorizeStep ==
  /\ pc \in {"fsf_pop", "fsf_test"}
  /\ LET e == IF pc = "fsf_pop" THEN fsf_pop(frame)
              ELSE fsf_test(frame, prime_cache, L)
     IN  pc' = e[1] /\ frame' = e[2]
  /\ UNCHANGED <<cacheVars, small_primes, small_prime_limit, call, twin, threads, cached_bit_count>>

FinderSlowFactorizeFind(d) ==
  /\ pc = "fsf_find"
  /\ d \in FinderResults(frame.n)
  /\ d = frame.n => frame.retries < MaxRetries
  /\ pc' = fsf_split(frame, d)[1]
  /\ frame' = fsf_split(frame, d)[2]
  /\ UNCHANGED <<cacheVars, small_primes, small_prime_limit, call, twin, threads, cached_bit_count>>

\* factorize or finder_slow_factorize returns.
FactorizeReturn ==
  /\ pc = "done"
  /\ frame.fn \in {"factorize", "finder_slow_factorize"}
  /\ Returns(frame.fn, <<frame.n0>>, frame.ret)
  /\ UNCHANGED <<cacheVars, small_primes, small_prime_limit, frame, twin, threads, cached_bit_count>>

\* The caller goes on to its next call.
Resume ==
  /\ pc = "returned"
  /\ pc' = "idle"
  /\ call' = NoCall
  /\ frame' = NoFrame
  /\ twin' = NoFrame
  /\ UNCHANGED <<cacheVars, small_primes, small_prime_limit, threads, cached_bit_count>>

\* The arguments a caller may pass: a call is made by an idle caller only.
Args(S) == IF pc = "idle" THEN S ELSE {}

\* The values the pending finder call may return.
Found == IF pc \in {"fact_find", "fsf_find"} THEN FinderResults(frame.n) ELSE {}

Next ==
  \/ ClearPrimeCache
  \/ \E limit \in Args(Limits) : EnsurePrimeCacheUpto(limit)
  \/ \E n \in Args(0..MaxSize) : EnsurePrimeCacheSize(n)
  \/ \E n \in Args(0..MaxCacheN) : \E limit \in Limits : PrimeIndex(n, limit)
  \/ \E n \in Args(0..MaxCacheN) : \E limit \in Limits : PrimeCountCached(n, limit)
  \/ \E n \in Args(-MaxNeg..MaxCacheN) : \E a \in Accuracies : PrimeCountMore(n, a)
  \/ \E n \in Args(-MaxNeg..MaxN) : IsPrime(n)
  \/ \E n \in Args(-MaxNeg..MaxNext) : NextPrime(n)
  \/ \E n \in Args(-MaxNeg..MaxUpto) : PrimesUpto(n)
  \/ \E i \in Args(0..MaxSize) : FirstPrimes(i)
  \/ \E n \in Args(0..MaxFactN) : FactorizeCall(n)
  \/ FactorizeStep
  \/ \E d \in Found : FactorizeFind(d)
  \/ \E n \in Args(0..MaxSlowN) : FinderSlowFactorizeCall(n)
  \/ FinderSlowFactorizeStep
  \/ \E d \in Found : FinderSlowFactorizeFind(d)
  \/ FactorizeReturn
  \/ Resume

Spec == Init /\ [][Next]_vars

(***************************************************************************)
(* What the claims compare the code with.                                  *)
(***************************************************************************)
IsPrimeNumber(p) == p >= 2 /\ \A d \in 2..(p - 1) : d * d > p \/ p % d # 0

PrimesIn(lo, hi) == {p \in lo..hi : IsPrimeNumber(p)}

StrictlyAscending(q) == \A i \in 1..(Len(q) - 1) : q[i] < q[i + 1]

Elements(q) == {q[i] : i \in 1..Len(q)}

\* q is the ascending list of exactly the primes <= n.
IsPrimeListUpto(q, n) == StrictlyAscending(q) /\ Elements(q) = PrimesIn(2, n)

Returned(op) == pc = "returned" /\ call.op = op

\* C2: for 0 <= n <= MaxN and every reachable cache state, is_prime(n) is
\* True iff n is prime, by cache lookup (n <= L) and by Miller-Rabin (n > L).
C2_IsPrime ==
  Returned("is_prime") /\ call.arg[1] >= 0
    => call.ret = IsPrimeNumber(call.arg[1])

\* The Carmichael number 561, above the limit of a warm cache, is found
\* composite by the Miller-Rabin rounds.
C2_Witness ==
  Returned("is_prime") /\ call.arg[1] = 561 /\ L > 1 /\ L < 561
    /\ call.ret = FALSE

\* C3: in every state reached by the public operations the cached sequence
\* is strictly ascending and holds exactly the primes p with 2 <= p <= L.
C3_CacheHoldsPrimesUptoL == IsPrimeListUpto(prime_cache, L)

\* A warm cache (L0 > 1) was rebuilt to a larger limit.
C3_Witness ==
  Returned("prime_count_cached") /\ call.L0 > 1 /\ L > call.L0
    /\ Len(prime_cache) > 2

\* C4: primes_upto(n) returns the strictly ascending list of exactly the
\* primes <= n (empty for n <= 1), from the sieve and from the cache.
C4_PrimesUpto ==
  Returned("primes_upto") => IsPrimeListUpto(call.ret, call.arg[1])

\* A call answered from the cache with a proper, nonempty prefix ending in
\* the argument itself.
C4_Witness ==
  Returned("primes_upto") /\ call.arg[1] <= L /\ Len(call.ret) >= 1
    /\ Len(call.ret) < Len(prime_cache)
    /\ call.ret[Len(call.ret)] = call.arg[1]

\* C7: next_prime(n) returns the least prime strictly greater than n.
C7_NextPrime ==
  Returned("next_prime") =>
    /\ IsPrimeNumber(call.ret)
    /\ call.ret > call.arg[1]
    /\ PrimesIn(call.arg[1] + 1, call.ret - 1) = {}

\* A call above the lookup table whose answer lies in the `while 1' loop.
C7_Witness ==
  Returned("next_prime") /\ call.arg[1] >= FIRST_PRIMES_MAX
    /\ call.ret > call.arg[1] + 8

\* C10: no step lowers L except a clear_prime_cache call, which sets L to 1
\* and empties the sequence.
C10_LimitNeverDecreases ==
  [][/\ call'.op # "clear_prime_cache" => L' >= L
     /\ call'.op = "clear_prime_cache" => L' = 1 /\ prime_cache' = <<>>]_vars

\* A call raised the limit of a warm cache.
C10_Witness ==
  Returned("prime_index") /\ call.L0 > 1 /\ L > call.L0

RECURSIVE Product(_)
Product(q) == IF q = <<>> THEN 1 ELSE q[1] * Product(Tail(q))

Ascending(q) == \A i \in 1..(Len(q) - 1) : q[i] <= q[i + 1]

\* C1: for n >= 1 and whatever the divisor finder returns within its
\* contract, factorize(n) returns an ascending list of primes with product
\* n; that list, and the list finder_slow_factorize(n) returns, are the
\* trial-division list yield_slow_factorize(n).
C1_Factorize ==
  /\ Returned("factorize") /\ call.arg[1] >= 1 =>
       /\ Ascending(call.ret)
       /\ \A i \in 1..Len(call.ret) : IsPrimeNumber(call.ret[i])
       /\ Product(call.ret) = call.arg[1]
       /\ call.ret = yield_slow_factorize(call.arg[1])
  /\ Returned("finder_slow_factorize") /\ call.arg[1] >= 1 =>
       call.ret = yield_slow_factorize(call.arg[1])

\* The finder split a cofactor into a larger and a smaller part, the work
\* loop collected three primes out of order, and the result came out sorted.
C1_Witness ==
  Returned("factorize") /\ Len(frame.ps) = 3 /\ frame.ps # call.ret
    /\ frame.seed = call.arg[1]

\* C9: the factorize(n) call made in a fresh process, given the same finder
\* results, is at every step in the same position with the same locals
\* (cofactor, stack, collected primes, seed of the default random source),
\* hence asks the finder the same questions and returns the same list,
\* whatever the cache state of this process.
C9_Determinism ==
  frame.fn = "factorize" =>
    /\ twin.frame = frame
    /\ twin.pc = pc \/ (pc = "returned" /\ twin.pc = "done")

\* A run whose primality tests were answered from a warm cache, beside the
\* fresh process that answered them by Miller-Rabin, after a finder retry.
C9_Witness ==
  /\ frame.fn = "factorize" /\ pc = "done"
  /\ frame.seed > 0 /\ L >= frame.seed /\ Len(frame.ps) >= 2
  /\ twin.frame.ret = frame.ret

(***************************************************************************)
(* The root functions as a step machine.  The initial state holds a        *)
(* pending call sqrt_floor(n) or root_floor(n, k); the steps are the entry *)
(* of the function, the rounds of its loops, and its return.               *)
(***************************************************************************)
RootCalls ==
  {[fn |-> "sqrt_floor", n |-> n, k |-> 2] : n \in 0..MaxRootN}
    \cup {[fn |-> "root_floor", n |-> n, k |-> k] :
            n \in 0..MaxRootN, k \in 1..MaxRootK}

InitRoot ==
  /\ prime_cache = <<>>
  /\ prime_cache_limit_ary = <<1>>
  /\ small_primes = <<>>
  /\ small_prime_limit = SMALL_PRIME_LIMIT
  /\ call = NoCall
  /\ pc = "call"
  /\ frame \in RootCalls
  /\ twin = NoFrame
  /\ threads = <<>>
  /\ cached_bit_count = <<0, 0>>

SqrtFloorCall ==
  /\ pc = "call"
  /\ frame.fn = "sqrt_floor"
  /\ pc' = sqrt_entry(frame.n)[1]
  /\ frame' = sqrt_entry(frame.n)[2]
  /\ UNCHANGED <<cacheVars, small_primes, small_prime_limit, call, twin, threads, cached_bit_count>>

RootFloorCall ==
  /\ pc = "call"
  /\ frame.fn = "root_floor"
  /\ pc' = root_entry(frame.n, frame.k)[1]
  /\ frame' = root_entry(frame.n, frame.k)[2]
  /\ UNCHANGED <<cacheVars, small_primes, small_prime_limit, call, twin, threads, cached_bit_count>>

SqrtLoopRound ==
  /\ pc = "sqrt_loop"
  /\ frame.a # frame.b
  /\ frame' = sqrt_iter(frame)
  /\ UNCHANGED <<cacheVars, small_primes, small_prime_limit, call, pc, twin, threads, cached_bit_count>>

SqrtLoopExit ==
  /\ pc = "sqrt_loop"
  /\ frame.a = frame.b
  /\ frame' = sqrt_exit(frame)
  /\ pc' = "done"
  /\ UNCHANGED <<cacheVars, small_primes, small_prime_limit, call, twin, threads, cached_bit_count>>

RootNewtonRound ==
  /\ pc = "newton"
  /\ pc' = root_newton(frame)[1]
  /\ frame' = root_newton(frame)[2]
  /\ UNCHANGED <<cacheVars, small_primes, small_prime_limit, call, twin, threads, cached_bit_count>>

RootBisectRound ==
  /\ pc = "bisect"
  /\ pc' = root_bisect(frame)[1]
  /\ frame' = root_bisect(frame)[2]
  /\ UNCHANGED <<cacheVars, small_primes, small_prime_limit, call, twin, threads, cached_bit_count>>

RootReturn ==
  /\ pc = "done"
  /\ frame.fn \in {"sqrt_floor", "root_floor"}
  /\ pc' = "returned"
  /\ call' = [op |-> frame.fn, arg |-> <<frame.n, frame.k>>, ret |-> frame.ret,
              L0 |-> L]
  /\ UNCHANGED <<cacheVars, small_primes, small_prime_limit, frame, twin, threads, cached_bit_count>>

NextRoot ==
  \/ SqrtFloorCall
  \/ RootFloorCall
  \/ SqrtLoopRound
  \/ SqrtLoopExit
  \/ RootNewtonRound
  \/ RootBisectRound
  \/ RootReturn

SpecRoot == InitRoot /\ [][NextRoot]_vars

\* Every started call keeps taking steps: the interpreter runs it to the end.
FairSpecRoot == SpecRoot /\ WF_vars(NextRoot)

\* C5: every sqrt_floor(n), n >= 0, returns (the loop `while a != b' exits),
\* and the value r it returns satisfies r*r <= n < (r+1)*(r+1).
C5_SqrtFloor ==
  /\ [](Returned("sqrt_floor") =>
          /\ call.ret * call.ret <= call.arg[1]
          /\ call.arg[1] < (call.ret + 1) * (call.ret + 1))
  /\ (frame.fn = "sqrt_floor" ~> pc = "returned")

\* The loop was left on an oscillation by one (a = b, c = a + 1) and the
\* function returned a.
C5_Witness ==
  Returned("sqrt_floor") /\ frame.n >= 4 /\ frame.c = frame.a + 1
    /\ call.ret = frame.a

\* C6: every root_floor(n, k), n >= 0, k >= 1, returns, and returns (r, e)
\* with r^k <= n < (r+1)^k and e true iff r^k = n; the bisection is entered
\* and runs with low^k <= n < high^k.
C6_RootFloor ==
  /\ [](Returned("root_floor") =>
          LET n == call.arg[1]
              k == call.arg[2]
              r == call.ret[1]
          IN  r ^ k <= n /\ n < (r + 1) ^ k /\ call.ret[2] = (r ^ k = n))
  /\ [](frame.fn = "root_floor" /\ pc = "bisect" =>
          /\ frame.low ^ frame.k <= frame.n
          /\ frame.n < frame.high ^ frame.k)
  /\ (frame.fn = "root_floor" ~> pc = "returned")

\* A k >= 3 call that went through Newton and the bisection and returned
\* (low, False).
C6_Witness ==
  Returned("root_floor") /\ call.arg[2] >= 3
    /\ call.arg[1] >= 2 ^ call.arg[2]
    /\ call.ret[2] = FALSE /\ call.ret[1] = frame.low

(***************************************************************************)
(* The divisor finders pollard(n, random_obj) and brent(n, random_obj) as  *)
(* a step machine.  The initial state holds a pending call; each randrange *)
(* call of the finder is a step that draws any value of its range.         *)
(***************************************************************************)
\* gcd(a, b), lines 627-640.
RECURSIVE gcd_loop(_, _)
gcd_loop(a, b) == IF b # 0 THEN gcd_loop(b, a % b) ELSE a

gcd(a, b) == gcd_loop(abs(a), abs(b))

\* y = (y * y + c) % n, cnt times (lines 1205-1208).
RECURSIVE rho_advance(_, _, _, _)
rho_advance(y, c, n, cnt) ==
  IF cnt <= 0 THEN y ELSE rho_advance((y * y + c) % n, c, n, cnt - 1)

\* Lines 1212-1217: cnt steps of y and q, as <<y, q>>.
RECURSIVE brent_batch(_, _, _, _, _, _)
brent_batch(y, q, x, c, n, cnt) ==
  IF cnt <= 0 THEN <<y, q>>
  ELSE LET y1 == (y * y + c) % n
       IN  brent_batch(y1, (q * abs(x - y1)) % n, x, c, n, cnt - 1)

\* The locals of a finder; 0 stands for a local not assigned yet.
rho_frame(fn, n) ==
  [fn |-> fn, n |-> n, y |-> 0, c |-> 0, m |-> 0, x |-> 0, g |-> 0, r |-> 0,
   q |-> 0, k |-> 0, ys |-> 0, ret |-> None]

RhoCalls == {rho_frame(fn, n) : fn \in {"pollard", "brent"}, n \in 2..MaxRhoN}

\* random_obj.randrange(1, n)
randrange_1_n(n) == 1..(n - 1)

InitRho ==
  /\ prime_cache = <<>>
  /\ prime_cache_limit_ary = <<1>>
  /\ small_primes = <<>>
  /\ small_prime_limit = SMALL_PRIME_LIMIT
  /\ call = NoCall
  /\ pc = "call"
  /\ frame \in RhoCalls
  /\ twin = NoFrame
  /\ threads = <<>>
  /\ cached_bit_count = <<0, 0>>

\* Lines 1138-1141 and 1189-1192: n <= 1 raises ValueError, an even n returns 2
\* before any draw.
RhoCall ==
  /\ pc = "call"
  /\ frame.fn \in {"pollard", "brent"}
  /\ IF frame.n <= 1
       THEN pc' = "done" /\ frame' = returned([frame EXCEPT !.ret = ValueError])
     ELSE IF frame.n % 2 = 0
       THEN pc' = "done" /\ frame' = returned([frame EXCEPT !.ret = 2])
     ELSE pc' = "draw_y" /\ frame' = frame
  /\ UNCHANGED <<cacheVars, small_primes, small_prime_limit, call, twin, threads, cached_bit_count>>

\* Lines 1144 and 1195.
DrawY(v) ==
  /\ pc = "draw_y"
  /\ v \in randrange_1_n(frame.n)
  /\ pc' = "draw_c"
  /\ frame' = [frame EXCEPT !.y = v]
  /\ UNCHANGED <<cacheVars, small_primes, small_prime_limit, call, twin, threads, cached_bit_count>>

\* Lines 1145-1149: c is drawn, and drawn again while it is n - 2.
pollard_start(f, v) ==
  IF v = f.n - 2 THEN <<"draw_c", [f EXCEPT !.c = v]>>
  ELSE <<"p_loop", [f EXCEPT !.c = v, !.x = f.y, !.g = 1]>>

\* Lines 1196-1200.
brent_start(f, v) ==
  IF v = f.n - 2 THEN <<"draw_c", [f EXCEPT !.c = v]>>
  ELSE <<"draw_m", [f EXCEPT !.c = IF v = f.n - 2 THEN f.n - 1 ELSE v]>>

DrawC(v) ==
  /\ pc = "draw_c"
  /\ v \in randrange_1_n(frame.n)
  /\ LET e == IF frame.fn = "pollard" THEN pollard_start(frame, v)
              ELSE brent_start(frame, v)
     IN  pc' = e[1] /\ frame' = e[2]
  /\ UNCHANGED <<cacheVars, small_primes, small_prime_limit, call, twin, threads, cached_bit_count>>

\* A draw of c that ends the `while c == n - 2' loop.
DrawGoodC == \E v \in randrange_1_n(frame.n) \ {frame.n - 2} : DrawC(v)

\* Lines 1201-1202.
DrawM(v) ==
  /\ pc = "draw_m"
  /\ v \in randrange_1_n(frame.n)
  /\ pc' = "b_outer"
  /\ frame' = [frame EXCEPT !.m = v, !.g = 1, !.r = 1, !.q = 1]
  /\ UNCHANGED <<cacheVars, small_primes, small_prime_limit, call, twin, threads, cached_bit_count>>

\* Lines 1150-1157: one round of `while g == 1'.
pollard_round(f) ==
  LET x  == (f.x * f.x + f.c) % f.n
      y1 == (f.y * f.y + f.c) % f.n
      y  == (y1 * y1 + f.c) % f.n
      g  == gcd(abs(x - y), f.n)
      h  == [f EXCEPT !.x = x, !.y = y, !.g = g]
  IN  IF g = 1 THEN <<"p_loop", h>> ELSE <<"done", returned([h EXCEPT !.ret = g])>>

PollardRound ==
  /\ pc = "p_loop"
  /\ pc' = pollard_round(frame)[1]
  /\ frame' = pollard_round(frame)[2]
  /\ UNCHANGED <<cacheVars, small_primes, small_prime_limit, call, twin, threads, cached_bit_count>>

brent_backtrack_stops_at_once(f) ==
  LET ys == (f.ys * f.ys + f.c) % f.n
      g  == gcd(abs(f.x - ys), f.n)
  IN  <<"done", returned([f EXCEPT !.ys = ys, !.g = g, !.ret = g])>>

\* Lines 1203-1209 and 1221: the head of `while g == 1'.
brent_outer(f) ==
  IF f.g = 1
    THEN <<"b_inner", [f EXCEPT !.x = f.y,
                                !.y = rho_advance(f.y, f.c, f.n, f.r),
                                !.k = 0]>>
  ELSE IF f.g = f.n THEN <<"b_back", f>>
  ELSE <<"done", returned([f EXCEPT !.ret = f.g])>>

\* Lines 1210-1220: one batch of `while k < r and g == 1', or r <<= 1.
brent_inner(f) ==
  IF f.k < f.r /\ f.g = 1
    THEN LET b == brent_batch(f.y, f.q, f.x, f.c, f.n, min(f.m, f.r - f.k))
         IN  <<"b_inner", [f EXCEPT !.ys = f.y, !.y = b[1], !.q = b[2],
                                    !.g = gcd(b[2], f.n), !.k = f.k + f.m]>>
    ELSE <<"b_outer", [f EXCEPT !.r = 2 * f.r]>>

\* Lines 1222-1227: one round of the backtracking `while 1'.
brent_backtrack(f) ==
  LET ys == (f.ys * f.ys + f.c) % f.n
      g  == gcd(abs(f.x - ys), f.n)
      h  == [f EXCEPT !.ys = ys, !.g = g]
  IN  IF g > 1 THEN <<"done", returned([h EXCEPT !.ret = g])>> ELSE <<"b_back", h>>

BrentOuter ==
  /\ pc = "b_outer"
  /\ pc' = brent_outer(frame)[1]
  /\ frame' = brent_outer(frame)[2]
  /\ UNCHANGED <<cacheVars, small_primes, small_prime_limit, call, twin, threads, cached_bit_count>>

BrentInner ==
  /\ pc = "b_inner"
  /\ pc' = brent_inner(frame)[1]
  /\ frame' = brent_inner(frame)[2]
  /\ UNCHANGED <<cacheVars, small_primes, small_prime_limit, call, twin, threads, cached_bit_count>>

BrentBacktrack ==
  /\ pc = "b_back"
  /\ pc' = brent_backtrack(frame)[1]
  /\ frame' = brent_backtrack(frame)[2]
  /\ UNCHANGED <<cacheVars, small_primes, small_prime_limit, call, twin, threads, cached_bit_count>>

RhoReturn ==
  /\ pc = "done"
  /\ frame.fn \in {"pollard", "brent"}
  /\ pc' = "returned"
  /\ call' = [op |-> frame.fn, arg |-> <<frame.n>>, ret |-> frame.ret,
              L0 |-> L]
  /\ UNCHANGED <<cacheVars, small_primes, small_prime_limit, frame, twin, threads, cached_bit_count>>

NextRho ==
  \/ RhoCall
  \/ \E v \in randrange_1_n(frame.n) : DrawY(v)
  \/ \E v \in randrange_1_n(frame.n) : DrawC(v)
  \/ \E v \in randrange_1_n(frame.n) : DrawM(v)
  \/ PollardRound
  \/ BrentOuter
  \/ BrentInner
  \/ BrentBacktrack
  \/ RhoReturn

SpecRho == InitRho /\ [][NextRho]_vars

\* The interpreter runs a started call on, and the random source does not
\* return n - 2 for c forever.
FairSpecRho == SpecRho /\ WF_vars(NextRho) /\ WF_vars(DrawGoodC)

\* C8: brent(n, r) and pollard(n, r), n >= 2, return for every outcome of
\* the draws of y, c and m; the returned d has 1 < d <= n and n % d = 0, is
\* 2 for an even n and n for a prime n; and the constant c the iteration
\* uses is in 1..n-1 and is not n - 2.
C8_Finders ==
  /\ [](Returned("pollard") \/ Returned("brent") =>
          /\ 1 < call.ret /\ call.ret <= call.arg[1]
          /\ call.arg[1] % call.ret = 0
          /\ call.arg[1] % 2 = 0 => call.ret = 2
          /\ IsPrimeNumber(call.arg[1]) => call.ret = call.arg[1])
  /\ [](pc \in {"p_loop", "draw_m", "b_outer", "b_inner", "b_back"} =>
          frame.c \in 1..(frame.n - 1) /\ frame.c # frame.n - 2)
  /\ (frame.fn \in {"pollard", "brent"} ~> pc = "returned")

\* brent found the product q a multiple of the composite n, backtracked
\* through the last batch and returned a nontrivial divisor, in a round
\* after r had doubled twice.
C8_Witness ==
  /\ Returned("brent") /\ frame.g # frame.n /\ frame.q = 0
  /\ frame.ys # 0 /\ frame.r > 2

(***************************************************************************)
(* Threads.  The cache functions take no lock, so calls running in several *)
(* threads interleave between any two accesses of the shared list and of   *)
(* the shared limit.  A thread is a record: the call (op, n, limit), its   *)
(* position pc, and its locals i (an index found), built (a list built off *)
(* to the side) and ret.  A step takes the thread, the shared list and the *)
(* shared limit to <<thread, list, limit>>.  One step is one access: a     *)
(* read of L, a bisect call, a len(), an item read, a slice, or one slice  *)
(* or item assignment.                                                     *)
(***************************************************************************)
IndexError == "IndexError"

thread(op, n, limit, start) ==
  [op |-> op, n |-> n, limit |-> limit, pc |-> start, i |-> 0,
   built |-> <<>>, ret |-> None]

clear_thread == thread("clear_prime_cache", 0, 0, "cl_lim")

ensure_thread(limit) == thread("ensure_prime_cache_upto", 0, limit, "e_check")

prime_index_thread(n, limit) == thread("prime_index", n, limit, "i_check")

prime_count_cached_thread(n, limit) ==
  thread("prime_count_cached", n, limit, "c_check")

is_prime_thread(n) == thread("is_prime", n, 0, "p_read")

\* primes_upto(n) called by a user: its argument is kept in limit as well.
primes_upto_thread(n) == thread("primes_upto", n, n, "pu_read")

finished(th, ret) == [th EXCEPT !.pc = "done", !.ret = ret]

\* Lines 833-836 after lines 824-829: is_prime(n), n >= 0.
is_prime_step(th, cache, lim) ==
  IF th.pc = "p_read"
    THEN IF th.n >= 3 /\ th.n % 2 = 1 /\ th.n <= lim
           THEN <<[th EXCEPT !.pc = "p_bisect"], cache, lim>>
           ELSE <<finished(th, is_prime(th.n, cache, lim)), cache, lim>>
  ELSE IF th.pc = "p_bisect"
    THEN <<[th EXCEPT !.pc = "p_len", !.i = bisect_left(cache, th.n)], cache, lim>>
  ELSE IF th.pc = "p_len"
    THEN IF th.i < Len(cache) THEN <<[th EXCEPT !.pc = "p_elem"], cache, lim>>
         ELSE <<finished(th, FALSE), cache, lim>>
  ELSE IF th.i < Len(cache)
    THEN <<finished(th, cache[th.i + 1] = th.n), cache, lim>>
    ELSE <<finished(th, IndexError), cache, lim>>

\* primes_upto returns the list built: to its user, or into the rebuild.
primes_upto_return(th, list) ==
  IF th.op = "primes_upto" THEN finished(th, list)
  ELSE [th EXCEPT !.pc = "e_seq", !.built = list]

\* Lines 286-306: primes_upto(th.limit).
primes_upto_step(th, cache, lim) ==
  IF th.pc = "pu_read"
    THEN IF th.limit <= 1 THEN <<primes_upto_return(th, <<>>), cache, lim>>
         ELSE IF th.limit <= lim THEN <<[th EXCEPT !.pc = "pu_bisect"], cache, lim>>
         ELSE <<primes_upto_return(th, primes_sieve(th.limit)), cache, lim>>
  ELSE IF th.pc = "pu_bisect"
    THEN <<[th EXCEPT !.pc = "pu_slice", !.i = bisect_right(cache, th.limit)],
           cache, lim>>
  ELSE <<primes_upto_return(th, SubSeq(cache, 1, min(th.i, Len(cache)))),
         cache, lim>>

\* Where a thread goes on when the cache covers its limit.
after_ensure(th) ==
  IF th.op = "prime_index" THEN [th EXCEPT !.pc = "i_bisect"]
  ELSE IF th.op = "prime_count_cached" THEN [th EXCEPT !.pc = "c_count"]
  ELSE finished(th, None)

publish_limit_first(th, cache, lim) ==
  IF th.pc = "e_seq" THEN <<[th EXCEPT !.pc = "e_lim"], cache, th.limit>>
  ELSE <<after_ensure(th), th.built, lim>>

\* Lines 258-261 and 712-715: the list is assigned, then the limit.
publish(th, cache, lim) ==
  IF th.pc = "e_seq" THEN <<[th EXCEPT !.pc = "e_lim"], th.built, lim>>
  ELSE <<after_ensure(th), cache, th.limit>>

\* Lines 257-261: ensure_prime_cache_upto(th.limit).
ensure_step(th, cache, lim) ==
  IF th.pc = "e_check"
    THEN IF lim < th.limit THEN <<[th EXCEPT !.pc = "pu_read"], cache, lim>>
         ELSE <<after_ensure(th), cache, lim>>
  ELSE publish(th, cache, lim)

\* Lines 681-689: prime_index(n, limit).
prime_index_step(th, cache, lim) ==
  IF th.pc = "i_check"
    THEN IF th.n > lim
           THEN <<[th EXCEPT !.pc = "e_check",
                             !.limit = shift_limit(th.limit, th.n)], cache, lim>>
           ELSE <<[th EXCEPT !.pc = "i_bisect"], cache, lim>>
  ELSE IF th.pc = "i_bisect"
    THEN <<[th EXCEPT !.pc = "i_len", !.i = bisect_left(cache, th.n)], cache, lim>>
  ELSE IF th.pc = "i_len"
    THEN IF th.i >= Len(cache) THEN <<finished(th, None), cache, lim>>
         ELSE <<[th EXCEPT !.pc = "i_elem"], cache, lim>>
  ELSE IF th.i < Len(cache)
    THEN <<finished(th, IF cache[th.i + 1] # th.n THEN None ELSE th.i), cache, lim>>
    ELSE <<finished(th, IndexError), cache, lim>>

\* Lines 709-716: prime_count_cached(n, limit); its rebuild calls
\* primes_upto itself and then assigns as ensure_prime_cache_upto does.
prime_count_cached_step(th, cache, lim) ==
  IF th.pc = "c_check"
    THEN IF th.n > lim
           THEN <<[th EXCEPT !.pc = "pu_read",
                             !.limit = shift_limit(th.limit, th.n)], cache, lim>>
           ELSE <<[th EXCEPT !.pc = "c_count"], cache, lim>>
  ELSE <<finished(th, bisect_right(cache, th.n)), cache, lim>>

\* Lines 242-243: the limit is reset, then the list is emptied in place.
clear_step(th, cache, lim) ==
  IF th.pc = "cl_lim" THEN <<[th EXCEPT !.pc = "cl_seq"], cache, 1>>
  ELSE <<finished(th, None), <<>>, lim>>

\* Thread t takes the step st = <<thread, list, limit>>.
Run(t, st) ==
  /\ threads' = [threads EXCEPT ![t] = st[1]]
  /\ prime_cache' = st[2]
  /\ prime_cache_limit_ary' = <<st[3]>>
  /\ UNCHANGED <<small_primes, small_prime_limit, call, pc, frame, twin, cached_bit_count>>

IsPrimeStep(t) ==
  /\ threads[t].pc \in {"p_read", "p_bisect", "p_len", "p_elem"}
  /\ Run(t, is_prime_step(threads[t], prime_cache, L))

PrimesUptoStep(t) ==
  /\ threads[t].pc \in {"pu_read", "pu_bisect", "pu_slice"}
  /\ Run(t, primes_upto_step(threads[t], prime_cache, L))

EnsureStep(t) ==
  /\ threads[t].pc \in {"e_check", "e_seq", "e_lim"}
  /\ Run(t, ensure_step(threads[t], prime_cache, L))

PrimeIndexStep(t) ==
  /\ threads[t].pc \in {"i_check", "i_bisect", "i_len", "i_elem"}
  /\ Run(t, prime_index_step(threads[t], prime_cache, L))

PrimeCountCachedStep(t) ==
  /\ threads[t].pc \in {"c_check", "c_count"}
  /\ Run(t, prime_count_cached_step(threads[t], prime_cache, L))

ClearStep(t) ==
  /\ threads[t].pc \in {"cl_lim", "cl_seq"}
  /\ Run(t, clear_step(threads[t], prime_cache, L))

\* The limits the cache may have when the threads start, and the limit
\* arguments they pass.
ThreadLimits == {1, 3}

\* The process starts its threads with the cache valid up to lim0.
InitThreads(lim0, ths) ==
  /\ prime_cache = ensure_prime_cache_upto(lim0, <<>>, 1)[1]
  /\ prime_cache_limit_ary = <<lim0>>
  /\ small_primes = <<>>
  /\ small_prime_limit = SMALL_PRIME_LIMIT
  /\ call = NoCall
  /\ pc = "threads"
  /\ frame = NoFrame
  /\ twin = NoFrame
  /\ threads = ths
  /\ cached_bit_count = <<0, 0>>

\* The calls that may rebuild the cache.
Growers ==
  {ensure_thread(limit) : limit \in 1..MaxThreadN}
    \cup {prime_index_thread(n, limit) : n \in 0..MaxThreadN, limit \in ThreadLimits}
    \cup {prime_count_cached_thread(n, limit) :
            n \in 0..MaxThreadN, limit \in ThreadLimits}

\* The read-only queries: is_prime, and prime_index within the limit.
Lookups(lim0) ==
  {is_prime_thread(n) : n \in 0..MaxThreadN}
    \cup {prime_index_thread(n, 1) : n \in 0..min(lim0, MaxThreadN)}

(***************************************************************************)
(* One cache-growing call beside two read-only queries.                    *)
(***************************************************************************)
InitGrow ==
  \E lim0 \in ThreadLimits, g \in Growers, n \in 0..MaxThreadN :
    \E r \in Lookups(lim0) : InitThreads(lim0, <<g, r, primes_upto_thread(n)>>)

NextGrow ==
  \/ \E t \in DOMAIN threads : EnsureStep(t)
  \/ \E t \in DOMAIN threads : PrimeIndexStep(t)
  \/ \E t \in DOMAIN threads : PrimeCountCachedStep(t)
  \/ \E t \in DOMAIN threads : PrimesUptoStep(t)
  \/ \E t \in DOMAIN threads : IsPrimeStep(t)

SpecGrow == InitGrow /\ [][NextGrow]_vars

\* Equality of two Python values of any types.
Same(a, b) == ToString(a) = ToString(b)

\* The zero-based position of n among the primes, None for a non-prime.
PrimeIndexOf(n) ==
  IF IsPrimeNumber(n) THEN Cardinality(PrimesIn(2, n - 1)) ELSE None

\* The finished thread th returned the answer of its call.
AnsweredRight(th) ==
  IF th.op = "is_prime" THEN Same(th.ret, IsPrimeNumber(th.n))
  ELSE IF th.op = "primes_upto" THEN IsPrimeListUpto(th.ret, th.n)
  ELSE IF th.op = "prime_index" THEN Same(th.ret, PrimeIndexOf(th.n))
  ELSE IF th.op = "prime_count_cached"
    THEN Same(th.ret, Cardinality(PrimesIn(2, th.n)))
  ELSE TRUE

\* C11: while one cache-growing call runs its steps (build the list aside,
\* assign the sequence, assign L) beside read-only queries, in every state
\* the sequence holds every prime <= L and is a whole list of primes (the
\* one before or the one after the rebuild), and every query that finished
\* returned the right answer.
C11_OneGrowerWithReaders ==
  /\ PrimesIn(2, L) \subseteq Elements(prime_cache)
  /\ \E m \in L..(2 * MaxThreadN) : IsPrimeListUpto(prime_cache, m)
  /\ \A t \in DOMAIN threads :
       threads[t].pc = "done" => AnsweredRight(threads[t])

\* The rebuild has assigned the longer sequence and not yet the limit; an
\* is_prime that took its n <= L branch has answered True from the list,
\* and a primes_upto that took the branch is between its bisect and its
\* slice.
C11_Witness ==
  /\ threads[1].pc = "e_lim" /\ L > 1 /\ L < threads[1].limit
  /\ Len(prime_cache) > Cardinality(PrimesIn(2, L))
  /\ threads[2].op = "is_prime" /\ threads[2].pc = "done"
  /\ threads[2].n >= 3 /\ threads[2].n <= L /\ Same(threads[2].ret, TRUE)
  /\ threads[3].pc = "pu_slice"

(***************************************************************************)
(* Two cache-mutating calls in two threads, no lock between them.          *)
(***************************************************************************)
Mutators ==
  {ensure_thread(limit) : limit \in 1..MaxThreadN}
    \cup {prime_count_cached_thread(n, limit) :
            n \in 0..MaxThreadN, limit \in ThreadLimits}
    \cup {clear_thread}

InitMutators ==
  \E lim0 \in ThreadLimits, a \in Mutators, b \in Mutators :
    InitThreads(lim0, <<a, b>>)

NextMutators ==
  \/ \E t \in DOMAIN threads : EnsureStep(t)
  \/ \E t \in DOMAIN threads : PrimeCountCachedStep(t)
  \/ \E t \in DOMAIN threads : PrimesUptoStep(t)
  \/ \E t \in DOMAIN threads : ClearStep(t)

SpecMutators == InitMutators /\ [][NextMutators]_vars

\* C12: under every interleaving of two unlocked cache-mutating calls the
\* sequence holds every prime <= L, in every state and so in the last one.
C12_MutatorsKeepCacheCovered ==
  PrimesIn(2, L) \subseteq Elements(prime_cache)

(***************************************************************************)
(* clear_prime_cache beside one is_prime or primes_upto.                   *)
(***************************************************************************)
ClearReaders ==
  {is_prime_thread(n) : n \in 0..MaxThreadN}
    \cup {primes_upto_thread(n) : n \in 0..MaxThreadN}

InitClear ==
  \E lim0 \in ThreadLimits, r \in ClearReaders :
    InitThreads(lim0, <<clear_thread, r>>)

NextClear ==
  \/ \E t \in DOMAIN threads : ClearStep(t)
  \/ \E t \in DOMAIN threads : IsPrimeStep(t)
  \/ \E t \in DOMAIN threads : PrimesUptoStep(t)

SpecClear == InitClear /\ [][NextClear]_vars

\* C13: an is_prime(n) or primes_upto(n) that runs beside clear_prime_cache
\* returns the answer of a sequential run: whether n is prime, the whole
\* list of primes <= n.
C13_ReaderBesideClear ==
  \A t \in DOMAIN threads :
    threads[t].pc = "done" => AnsweredRight(threads[t])

(***************************************************************************)
(* The sequence written from outside, as the tests do                      *)
(* (intalg_smoke_test.py lines 144 and 408), while L stays as it is.       *)
(***************************************************************************)
MaxFakeN == 100

\* The emptied list, the list of testPrimesUpto, and a list of non-primes
\* longer than FIRST_PRIMES.
FakeCaches ==
  {<<>>, <<6, 77, 8>>, [k \in 1..(Len(FIRST_PRIMES) + 1) |-> 4 * k]}

OverwritePrimeCache(v) ==
  /\ pc = "idle"
  /\ prime_cache' = v
  /\ UNCHANGED <<prime_cache_limit_ary, small_primes, small_prime_limit, call, pc, frame, twin,
                 threads, cached_bit_count>>

NextFake ==
  \/ \E limit \in Args(Limits) : EnsurePrimeCacheUpto(limit)
  \/ \E v \in Args(FakeCaches) : OverwritePrimeCache(v)
  \/ \E n \in Args(0..MaxFakeN) : IsPrime(n)
  \/ \E n \in Args(0..MaxFakeN) : PrimesUpto(n)
  \/ \E n \in Args(0..MaxFakeN) : PrimeIndex(n, DefaultLimit)
  \/ \E i \in Args((0..MaxSize) \cup {Len(FIRST_PRIMES) + 1}) : FirstPrimes(i)
  \/ Resume

SpecFake == Init /\ [][NextFake]_vars

\* The sequence is not the list of the primes <= L although L is above 1.
Mismatch == L > 1 /\ ~IsPrimeListUpto(prime_cache, L)

\* The call that has returned took its answer from the stored sequence.
AnsweredFromCache ==
  \/ Returned("is_prime") /\ call.arg[1] % 2 = 1 /\ call.arg[1] <= L
  \/ Returned("primes_upto") /\ call.arg[1] > 1 /\ call.arg[1] <= L
  \/ Returned("prime_index") /\ call.arg[1] <= call.L0
  \/ Returned("first_primes") /\ call.arg[1] > Len(FIRST_PRIMES)
       /\ call.arg[1] <= Len(prime_cache)

IsError(v) ==
  \E e \in {AssertionError, IndexError, NameError, ValueError} : Same(v, e)

\* C14, as stated: with a sequence that does not match L, a call of is_prime,
\* primes_upto, prime_index or first_primes that consults the sequence fails
\* with an assertion error.
C14_FailsLoudly ==
  Mismatch /\ AnsweredFromCache => Same(call.ret, AssertionError)

\* C14, amended: with a sequence that does not match L these calls raise no
\* error and answer from the sequence as it stands: is_prime(n) is True only
\* for a stored n (for no odd n when the list is empty), primes_upto(n) is a
\* leading part of the stored sequence ([6, 77, 8] for n = 100 over that
\* list), prime_index(n) is None or a position holding n, first_primes(i) is
\* the first i stored elements.
C14_SilentOnMismatch ==
  Mismatch /\ AnsweredFromCache =>
    /\ ~IsError(call.ret)
    /\ Returned("is_prime") =>
         (call.ret => call.arg[1] \in Elements(prime_cache))
    /\ Returned("primes_upto") =>
         /\ \E k \in 0..Len(prime_cache) : call.ret = SubSeq(prime_cache, 1, k)
         /\ prime_cache = <<6, 77, 8>> /\ call.arg[1] = MaxFakeN
              => call.ret = <<6, 77, 8>>
    /\ Returned("prime_index") =>
         \/ Same(call.ret, None)
         \/ prime_cache[call.ret + 1] = call.arg[1]
    /\ Returned("first_primes") =>
         call.ret = SubSeq(prime_cache, 1, call.arg[1])

\* primes_upto(100) over the list [6, 77, 8] with L = 256 has returned that
\* list.
C14_Witness ==
  /\ Mismatch
  /\ AnsweredFromCache
  /\ L = DefaultLimit
  /\ Returned("primes_upto")
  /\ call.arg[1] = MaxFakeN
  /\ call.ret = <<6, 77, 8>>

(***************************************************************************)
(* The calls of the cache world one by one (specification Spec).           *)
(***************************************************************************)
\* C15: a call ensure_prime_cache_upto(limit) ends with L >= limit and every
\* prime <= limit in the sequence; it changes neither L nor the sequence when
\* L >= limit held before, and otherwise leaves L = limit and the sequence
\* the ascending list of the primes <= limit.
C15_EnsurePrimeCacheUpto ==
  [][pc = "idle" /\ pc' = "returned" /\ call'.op = "ensure_prime_cache_upto" =>
       LET limit == call'.arg[1]
       IN  /\ L' >= limit
           /\ PrimesIn(2, limit) \subseteq Elements(prime_cache')
           /\ L >= limit => UNCHANGED cacheVars
           /\ L < limit =>
                L' = limit /\ IsPrimeListUpto(prime_cache', limit)]_vars

\* ensure_prime_cache_upto has raised L to its argument over a cache that
\* was warm already.
C15_Witness ==
  /\ Returned("ensure_prime_cache_upto")
  /\ call.L0 > 1
  /\ call.L0 < call.arg[1]
  /\ L = call.arg[1]
  /\ Len(prime_cache) > 1

(***************************************************************************)
(* ensure_prime_cache_size(n) for counts beyond the table FIRST_PRIMES.    *)
(***************************************************************************)
MaxIdx == 60

NextSize ==
  \/ ClearPrimeCache
  \/ \E n \in Args(0..MaxIdx) : EnsurePrimeCacheSize(n)
  \/ Resume

SpecSize == Init /\ [][NextSize]_vars

\* C16: for 1 <= i <= MaxIdx there are at least i primes <= prime_idx_more(i),
\* that is prime_idx_more(i) is at least the i-th prime; and
\* ensure_prime_cache_size(n) returns with at least n primes in the sequence
\* and its assertion passed.
C16_PrimeIdxMore ==
  Returned("ensure_prime_cache_size") =>
    LET n == call.arg[1]
    IN  /\ n >= 1 /\ call.L0 < L =>
             /\ L = prime_idx_more(n)
             /\ Cardinality(PrimesIn(2, L)) >= n
        /\ Len(prime_cache) >= n
        /\ Same(call.ret, None)

\* ensure_prime_cache_size(n) has rebuilt the cache for an n beyond the table.
C16_Witness ==
  /\ Returned("ensure_prime_cache_size")
  /\ call.arg[1] > Len(FIRST_PRIMES)
  /\ call.L0 < L
  /\ Len(prime_cache) >= call.arg[1]

C18_PrimeCountCached ==
  Returned("prime_count_cached") =>
    call.ret = Cardinality(PrimesIn(2, call.arg[1]))

\* prime_count_cached has counted the primes <= n, itself a prime, over a
\* warmed cache that did not reach n.
C18_Witness ==
  /\ Returned("prime_count_cached")
  /\ call.L0 > 1
  /\ call.L0 < call.arg[1]
  /\ IsPrimeNumber(call.arg[1])
  /\ call.ret = Cardinality(PrimesIn(2, call.arg[1]))

(***************************************************************************)
(* prime_index and prime_count_cached with the limits of their             *)
(* documentation's and the tests' sizes.                                   *)
(***************************************************************************)
ShiftNs == {0, 1, 2, 5, 12, 257, 600, 601}

ShiftLimits == {1, 3, 155, DefaultLimit, 600}

MaxShift == 10

NextShift ==
  \/ ClearPrimeCache
  \/ \E n \in Args(ShiftNs) : \E limit \in ShiftLimits : PrimeIndex(n, limit)
  \/ \E n \in Args(ShiftNs) : \E limit \in ShiftLimits :
       PrimeCountCached(n, limit)
  \/ Resume

SpecShift == Init /\ [][NextShift]_vars

\* C19: a call prime_index(n, limit) or prime_count_cached(n, limit) with
\* n <= L changes neither L nor the sequence; with n > L it leaves
\* L = limit * 2^j for the smallest j with limit * 2^j >= n and the sequence
\* the ascending list of the primes <= L.  So prime_index(5) on the empty
\* cache leaves L = 256, prime_index(257) leaves 512, prime_index(600, 600)
\* leaves 600 and prime_index(601, 155) leaves 620.
C19_GrowthByDoubling ==
  [][pc = "idle" /\ pc' = "returned"
       /\ call'.op \in {"prime_index", "prime_count_cached"} =>
       LET n == call'.arg[1]
           limit == call'.arg[2]
       IN  /\ n <= L => UNCHANGED cacheVars
           /\ n > L =>
                /\ \E j \in 0..MaxShift :
                     /\ L' = limit * 2 ^ j
                     /\ L' >= n
                     /\ j > 0 => limit * 2 ^ (j - 1) < n
                /\ IsPrimeListUpto(prime_cache', L')
           /\ n > L /\ call'.op = "prime_index" =>
                /\ n = 5 /\ limit = DefaultLimit => L' = 256
                /\ n = 257 /\ limit = DefaultLimit => L' = 512
                /\ n = 600 /\ limit = 600 => L' = 600
                /\ n = 601 /\ limit = 155 => L' = 620]_vars

\* prime_index(601, 155) has returned over a cache it had to grow, leaving
\* L = 620.
C19_Witness ==
  /\ Returned("prime_index")
  /\ call.arg = <<601, 155>>
  /\ call.L0 < 601
  /\ L = 620
  /\ Len(prime_cache) > 100

(***************************************************************************)
(* The queries, with the lists they return as objects: a returned list is  *)
(* either a new list or the list object _prime_cache itself, and what the  *)
(* caller does to the shared object, it does to the cache.                 *)
(***************************************************************************)
MaxQueryN == 100

new_list(q) == [items |-> q, is_cache |-> FALSE]

primes_upto_list_unsliced(n, cache, lim) ==
  IF n <= 1 THEN new_list(<<>>)
  ELSE IF n <= lim
    THEN (IF bisect_right(cache, n) = Len(cache)
            THEN [items |-> cache, is_cache |-> TRUE]
            ELSE new_list(SubSeq(cache, 1, bisect_right(cache, n))))
  ELSE new_list(primes_sieve(n))

\* primes_upto(n): [] (line 287), a slice of the cache (line 290) or the list
\* built from the sieve (line 306), each a new list.
primes_upto_list(n, cache, lim) ==
  IF n <= 1 THEN new_list(<<>>)
  ELSE IF n <= lim THEN new_list(SubSeq(cache, 1, bisect_right(cache, n)))
  ELSE new_list(primes_sieve(n))

\* first_primes(i): map(ord, ...), a slice of the cache or the list t.
first_primes_list(i, cache, lim) == new_list(first_primes(i, cache, lim))

\* first_primes_moremem(i): <<the returned list, the cache afterwards>>;
\* del s[i:] on line 591 works on the object primes_upto returned.
first_primes_moremem(i, cache, lim) ==
  IF i <= Len(FIRST_PRIMES) THEN <<new_list(SubSeq(FIRST_PRIMES, 1, i)), cache>>
  ELSE IF i <= Len(cache) THEN <<new_list(SubSeq(cache, 1, i)), cache>>
  ELSE LET s == primes_upto_list(prime_idx_more(i), cache, lim)
           t == SubSeq(s.items, 1, min(i, Len(s.items)))
       IN  <<[s EXCEPT !.items = t], IF s.is_cache THEN t ELSE cache>>

\* The caller's reference to the list a query returned.
reference(r) == [fn |-> "caller", is_cache |-> r.is_cache]

PrimesUptoList(n) ==
  /\ pc = "idle"
  /\ LET r == primes_upto_list(n, prime_cache, L)
     IN  /\ Returns("primes_upto", <<n>>, r.items)
         /\ frame' = reference(r)
  /\ UNCHANGED <<cacheVars, small_primes, small_prime_limit, twin, threads, cached_bit_count>>

FirstPrimesList(i) ==
  /\ pc = "idle"
  /\ LET r == first_primes_list(i, prime_cache, L)
     IN  /\ Returns("first_primes", <<i>>, r.items)
         /\ frame' = reference(r)
  /\ UNCHANGED <<cacheVars, small_primes, small_prime_limit, twin, threads, cached_bit_count>>

FirstPrimesMoremem(i) ==
  /\ pc = "idle"
  /\ LET r == first_primes_moremem(i, prime_cache, L)
     IN  /\ Returns("first_primes_moremem", <<i>>, r[1].items)
         /\ frame' = reference(r[1])
         /\ prime_cache' = r[2]
  /\ UNCHANGED <<prime_cache_limit_ary, small_primes, small_prime_limit, twin, threads, cached_bit_count>>

ListQueries == {"primes_upto", "first_primes", "first_primes_moremem"}

\* The caller empties the list it was given: del returned[:].
MutateReturned ==
  /\ pc = "returned"
  /\ call.op \in ListQueries
  /\ call.ret # <<>>
  /\ call' = [call EXCEPT !.ret = <<>>]
  /\ prime_cache' = IF frame.is_cache THEN <<>> ELSE prime_cache
  /\ UNCHANGED <<prime_cache_limit_ary, small_primes, small_prime_limit, pc, frame, twin, threads, cached_bit_count>>

\* pollard(n, random_obj) or brent(n, random_obj) is called.
RhoEnter(f) ==
  /\ pc = "idle"
  /\ pc' = "call"
  /\ frame' = f
  /\ UNCHANGED <<cacheVars, small_primes, small_prime_limit, call, twin, threads, cached_bit_count>>

Draws(at) == IF pc = at THEN randrange_1_n(frame.n) ELSE {}

NextQuery ==
  \/ ClearPrimeCache
  \/ \E limit \in Args({MaxCacheN, DefaultLimit}) : EnsurePrimeCacheUpto(limit)
  \/ \E n \in Args(0..MaxQueryN) : IsPrime(n)
  \/ \E n \in Args(0..MaxQueryN) : NextPrime(n)
  \/ \E n \in Args(0..MaxQueryN) : PrimesUptoList(n)
  \/ \E i \in Args(0..MaxQueryN) : FirstPrimesList(i)
  \/ \E i \in Args(0..MaxQueryN) : FirstPrimesMoremem(i)
  \/ MutateReturned
  \/ \E n \in Args(0..MaxSlowN) : FactorizeCall(n)
  \/ FactorizeStep
  \/ \E d \in Found : FactorizeFind(d)
  \/ FactorizeReturn
  \/ \E f \in Args(RhoCalls) : RhoEnter(f)
  \/ RhoCall
  \/ \E v \in Draws("draw_y") : DrawY(v)
  \/ \E v \in Draws("draw_c") : DrawC(v)
  \/ \E v \in Draws("draw_m") : DrawM(v)
  \/ PollardRound
  \/ BrentOuter
  \/ BrentInner
  \/ BrentBacktrack
  \/ RhoReturn
  \/ Resume

SpecQuery == Init /\ [][NextQuery]_vars

\* A call of clear_prime_cache or ensure_prime_cache_upto returns.
MutatorReturns ==
  /\ pc = "idle"
  /\ pc' = "returned"
  /\ call'.op \in {"clear_prime_cache", "ensure_prime_cache_upto"}

\* C20: no step of primes_upto, is_prime, next_prime, first_primes,
\* first_primes_moremem, factorize, brent or pollard, for arguments at, below
\* and above L, changes the sequence or L, and neither does the caller's
\* emptying of a list one of them returned.
C20_QueriesLeaveCache ==
  [][~MutatorReturns => UNCHANGED cacheVars]_vars

\* On the cleared cache first_primes_moremem(100) has returned its list, the
\* caller has emptied it, and L is still 1 over the empty sequence.
C20_Witness ==
  /\ Returned("first_primes_moremem")
  /\ call.arg[1] = MaxQueryN
  /\ call.ret = <<>>
  /\ L = 1
  /\ prime_cache = <<>>

(***************************************************************************)
(* prime_count_more(n, accuracy) through its three regimes: the table      *)
(* (n < 127), the closed form, and the exact count.                        *)
(***************************************************************************)
MaxCountN == 600

NextCount ==
  \/ ClearPrimeCache
  \/ \E limit \in Args({DefaultLimit}) : EnsurePrimeCacheUpto(limit)
  \/ \E n \in Args(-MaxNeg..MaxCountN) : \E a \in Accuracies :
       PrimeCountMore(n, a)
  \/ Resume

SpecCount == Init /\ [][NextCount]_vars

\* C21: for every n, every accuracy >= 3000 and every reachable cache state,
\* prime_count_more(n, accuracy) returns an integer that is at least the
\* number of primes <= n, equal to it for n < 127, and for accuracy 50000
\* equal to it for every n <= 546.
C21_PrimeCountMore ==
  Returned("prime_count_more") /\ call.arg[2] >= 3000 =>
    LET n == call.arg[1]
        count == Cardinality(PrimesIn(2, n))
    IN  /\ ~IsError(call.ret)
        /\ call.ret >= count
        /\ n < 127 => call.ret = count
        /\ call.arg[2] = 50000 /\ n <= 546 => call.ret = count

(***************************************************************************)
(* MiniIntRandom.randrange(start, stop), lines 1087-1108.  getrandbits(c)  *)
(* may return any integer of c bits.                                       *)
(***************************************************************************)
MaxStart == 2

MaxStop == 9

randrange_frame(start, stop, c, ret) ==
  [fn |-> "randrange", start |-> start, stop |-> stop, n |-> stop - start,
   c |-> c, draws |-> 0, ret |-> ret]

randrange_entry_any_memo(start, stop, memo) ==
  LET n == stop - start
  IN  IF n <= 0 THEN <<"done", randrange_frame(start, stop, 0, ValueError), memo>>
      ELSE IF memo[2] # 0
        THEN <<"rr_draw", randrange_frame(start, stop, memo[1], None), memo>>
      ELSE <<"rr_draw", randrange_frame(start, stop, bit_count(n), None),
             <<bit_count(n), n>>>>

\* Lines 1089-1103: <<position, frame, cached_bit_count>>.
randrange_entry(start, stop, memo) ==
  LET n == stop - start
  IN  IF n <= 0 THEN <<"done", randrange_frame(start, stop, 0, ValueError), memo>>
      ELSE IF memo[2] = n
        THEN <<"rr_draw", randrange_frame(start, stop, memo[1], None), memo>>
      ELSE <<"rr_draw", randrange_frame(start, stop, bit_count(n), None),
             <<bit_count(n), n>>>>

\* Lines 1105-1108: one getrandbits(c) that returned r.
randrange_draw(f, r) ==
  IF r >= f.n THEN <<"rr_draw", [f EXCEPT !.draws = min(f.draws + 1, 2)]>>
  ELSE <<"done", returned([f EXCEPT !.draws = min(f.draws + 1, 2), !.ret = r + f.start])>>

RandrangeCall(start, stop) ==
  /\ pc = "idle"
  /\ LET e == randrange_entry(start, stop, cached_bit_count)
     IN  /\ pc' = e[1]
         /\ frame' = e[2]
         /\ cached_bit_count' = e[3]
  /\ UNCHANGED <<cacheVars, small_primes, small_prime_limit, call, twin, threads>>

GetRandBits(r) ==
  /\ pc = "rr_draw"
  /\ LET d == randrange_draw(frame, r)
     IN  pc' = d[1] /\ frame' = d[2]
  /\ UNCHANGED <<cacheVars, small_primes, small_prime_limit, call, twin, threads, cached_bit_count>>

RandrangeReturn ==
  /\ pc = "done"
  /\ frame.fn = "randrange"
  /\ Returns("randrange", <<frame.start, frame.stop>>, frame.ret)
  /\ UNCHANGED <<cacheVars, small_primes, small_prime_limit, frame, twin, threads, cached_bit_count>>

\* The integers getrandbits(c) can return for the pending draw.
RandBits == IF pc = "rr_draw" THEN 0..(2 ^ frame.c - 1) ELSE {}

NextRandom ==
  \/ \E start \in Args(0..MaxStart) : \E stop \in 0..MaxStop :
       RandrangeCall(start, stop)
  \/ \E r \in RandBits : GetRandBits(r)
  \/ RandrangeReturn
  \/ Resume

SpecRandom == Init /\ [][NextRandom]_vars

\* The number of binary digits of n > 0: the least c with n < 2^c.
BitsOf(n) == CHOOSE c \in 1..(n + 1) : 2 ^ (c - 1) <= n /\ n < 2 ^ c

\* C23: over any sequence of randrange(start, stop) calls with sizes
\* n = stop - start > 0 that change or repeat, every attempt of a call draws
\* bit_count(n) bits (the memo is not used for another size), a draw >= n is
\* followed by another draw, and the call returns r with start <= r < stop.
C23_Randrange ==
  /\ [](pc = "rr_draw" => frame.c = BitsOf(frame.n))
  /\ [](Returned("randrange") /\ call.arg[2] > call.arg[1] =>
          call.arg[1] <= call.ret /\ call.ret < call.arg[2])
  /\ [][pc = "rr_draw" =>
          \/ pc' = "rr_draw" /\ frame'.ret = None
          \/ pc' = "done" /\ frame'.ret - frame.start < frame.n]_vars

\* randrange(2, 5) has returned after more than one draw, its size 3 having
\* replaced another size in the memo.
C23_Witness ==
  /\ Returned("randrange")
  /\ call.arg = <<2, 5>>
  /\ frame.draws > 1
  /\ cached_bit_count = <<2, 3>>

(***************************************************************************)
(* Calls with arguments outside the domain, beside calls at its edge.      *)
(***************************************************************************)
\* sqrt_floor(n) or root_floor(n, k) is called.
RootEnter(f) ==
  /\ pc = "idle"
  /\ pc' = "call"
  /\ frame' = f
  /\ UNCHANGED <<cacheVars, small_primes, small_prime_limit, call, twin, threads, cached_bit_count>>

\* yield_slow_factorize(n) is called: a generator is created, and no line of
\* the body runs before its first item is asked for.
YieldSlowFactorizeCall(n) ==
  /\ pc = "idle"
  /\ pc' = "generator"
  /\ frame' = [fn |-> "yield_slow_factorize", n |-> n, ret |-> None]
  /\ UNCHANGED <<cacheVars, small_primes, small_prime_limit, call, twin, threads, cached_bit_count>>

\* list(generator): line 980 raises for n <= 0 before anything is yielded.
YieldSlowFactorizeList ==
  /\ pc = "generator"
  /\ Returns("yield_slow_factorize", <<frame.n>>,
             IF frame.n <= 0 THEN ValueError ELSE yield_slow_factorize(frame.n))
  /\ UNCHANGED <<cacheVars, small_primes, small_prime_limit, frame, twin, threads, cached_bit_count>>

EdgeRootCalls ==
  {[fn |-> "sqrt_floor", n |-> n, k |-> 2] : n \in -MaxNeg..3}
    \cup {[fn |-> "root_floor", n |-> n, k |-> k] :
            n \in -MaxNeg..1, k \in -MaxNeg..MaxRootK}

EdgeRhoCalls ==
  {rho_frame(fn, n) : fn \in {"pollard", "brent"}, n \in -MaxNeg..2}

EdgeAccuracies == {-1, 0, 2999, 3000}

NextDomain ==
  \/ ClearPrimeCache
  \/ \E limit \in Args({MaxCacheN}) : EnsurePrimeCacheUpto(limit)
  \/ \E n \in Args(-MaxNeg..3) : FactorizeCall(n)
  \/ FactorizeReturn
  \/ \E n \in Args(-MaxNeg..3) : YieldSlowFactorizeCall(n)
  \/ YieldSlowFactorizeList
  \/ \E f \in Args(EdgeRootCalls) : RootEnter(f)
  \/ SqrtFloorCall
  \/ RootFloorCall
  \/ RootReturn
  \/ \E f \in Args(EdgeRhoCalls) : RhoEnter(f)
  \/ RhoCall
  \/ RhoReturn
  \/ \E start \in Args(0..MaxStart) : \E stop \in 0..MaxStart + 1 :
       RandrangeCall(start, stop)
  \/ \E r \in RandBits : GetRandBits(r)
  \/ RandrangeReturn
  \/ \E n \in Args(-MaxNeg..MaxCacheN) : \E a \in EdgeAccuracies :
       PrimeCountMore(n, a)
  \/ Resume

SpecDomain == Init /\ [][NextDomain]_vars

\* The call c was made with arguments outside the domain of its function.
DomainError(c) ==
  \/ c.op \in {"factorize", "yield_slow_factorize"} /\ c.arg[1] <= 0
  \/ c.op = "sqrt_floor" /\ c.arg[1] < 0
  \/ c.op = "root_floor" /\ (c.arg[1] < 0 \/ c.arg[2] <= 0)
  \/ c.op \in {"brent", "pollard"} /\ c.arg[1] <= 1
  \/ c.op = "randrange" /\ c.arg[2] <= c.arg[1]
  \/ c.op = "prime_count_more" /\ c.arg[2] < 3000

\* The call whose locals the frame f holds.
Running(f) ==
  [op |-> f.fn,
   arg |-> IF f.fn = "randrange" THEN <<f.start, f.stop>>
           ELSE IF f.fn = "factorize" THEN <<f.n0>>
           ELSE IF f.fn \in {"sqrt_floor", "root_floor"} THEN <<f.n, f.k>>
           ELSE <<f.n>>]

BASE == 10 ^ 4

RECURSIVE big_norm(_)
big_norm(a) ==
  IF Len(a) > 0 /\ a[Len(a)] = 0 THEN big_norm(SubSeq(a, 1, Len(a) - 1)) ELSE a

RECURSIVE big_of(_)
big_of(i) == IF i = 0 THEN <<>> ELSE <<i % BASE>> \o big_of(i \div BASE)

\* The integer written with its most significant digit first.
RECURSIVE big(_)
big(ds) == IF Len(ds) = 0 THEN <<>> ELSE big_norm(big(Tail(ds)) \o <<Head(ds)>>)

big_digit(a, j) == IF j <= Len(a) THEN a[j] ELSE 0

\* The value of a < 2^31.
big_small(a) == big_digit(a, 1) + BASE * big_digit(a, 2) + BASE * BASE * big_digit(a, 3)

RECURSIVE big_cmp_from(_, _, _)
big_cmp_from(a, b, j) ==
  IF j = 0 THEN 0
  ELSE IF a[j] # b[j] THEN (IF a[j] < b[j] THEN -1 ELSE 1)
  ELSE big_cmp_from(a, b, j - 1)

\* cmp(a, b): -1, 0 or 1.
big_cmp(a, b) ==
  IF Len(a) # Len(b) THEN (IF Len(a) < Len(b) THEN -1 ELSE 1)
  ELSE big_cmp_from(a, b, Len(a))

RECURSIVE big_add_from(_, _, _, _)
big_add_from(a, b, j, carry) ==
  IF j > Len(a) /\ j > Len(b) THEN (IF carry = 0 THEN <<>> ELSE <<carry>>)
  ELSE LET t == big_digit(a, j) + big_digit(b, j) + carry
       IN  <<t % BASE>> \o big_add_from(a, b, j + 1, t \div BASE)

big_add(a, b) == big_add_from(a, b, 1, 0)

RECURSIVE big_sub_from(_, _, _, _)
big_sub_from(a, b, j, borrow) ==
  IF j > Len(a) THEN <<>>
  ELSE LET t == a[j] - big_digit(b, j) - borrow
       IN  <<t % BASE>> \o big_sub_from(a, b, j + 1, IF t < 0 THEN 1 ELSE 0)

\* a - b for a >= b.
big_sub(a, b) == big_norm(big_sub_from(a, b, 1, 0))

\* a & 1.
big_odd(a) == Len(a) > 0 /\ a[1] % 2 = 1

RECURSIVE big_mul_digit(_, _, _, _)
big_mul_digit(a, d, j, carry) ==
  IF j > Len(a) THEN (IF carry = 0 THEN <<>> ELSE <<carry>>)
  ELSE LET t == a[j] * d + carry
       IN  <<t % BASE>> \o big_mul_digit(a, d, j + 1, t \div BASE)

\* a * b.
RECURSIVE big_mul(_, _)
big_mul(a, b) ==
  IF Len(b) = 0 THEN <<>>
  ELSE big_norm(big_add(big_mul_digit(a, b[1], 1, 0), <<0>> \o big_mul(a, Tail(b))))

RECURSIVE big_div_from(_, _, _, _)
big_div_from(a, d, j, rem) ==
  IF j = 0 THEN <<>>
  ELSE LET t == rem * BASE + a[j]
       IN  big_div_from(a, d, j - 1, t % d) \o <<t \div d>>

\* a / d for 0 < d <= 10^5.
big_div_small(a, d) == big_norm(big_div_from(a, d, Len(a), 0))

RECURSIVE big_mod_from(_, _, _, _)
big_mod_from(a, d, j, rem) ==
  IF j = 0 THEN rem ELSE big_mod_from(a, d, j - 1, (rem * BASE + a[j]) % d)

\* a % d for 0 < d <= 10^5.
big_mod_small(a, d) == big_mod_from(a, d, Len(a), 0)

\* a >> d.
RECURSIVE big_shr(_, _)
big_shr(a, d) ==
  IF d <= 16 THEN big_div_small(a, 2 ^ d)
  ELSE big_shr(big_div_small(a, 2 ^ 16), d - 16)

\* a << d.
RECURSIVE big_shl(_, _)
big_shl(a, d) ==
  IF d <= 16 THEN big_mul_digit(a, 2 ^ d, 1, 0)
  ELSE big_shl(big_mul_digit(a, 2 ^ 16, 1, 0), d - 16)

\* The number of binary digits of a.
RECURSIVE big_bit_length(_)
big_bit_length(a) ==
  IF Len(a) <= 2 THEN bit_length(big_small(a))
  ELSE 16 + big_bit_length(big_shr(a, 16))

\* log2_256_more(a) for an a beyond 2^31 (lines 428-431).
big_log2_256_more(a) ==
  LET d == big_bit_length(a) - 8
      m == big_shr(a, d)
  IN  LOG2_256_MORE_TABLE[big_small(m)
                          + (IF big_cmp(big_shl(m, d), a) # 0 THEN 1 ELSE 0) + 1]
        + d * 256

\* log_more(a, b) for a > 0 and a b beyond 2^31 (line 457).
big_log_more(a, b) ==
  LET x == big_mul(big_mul(big_of(a), big_of(big_log2_256_more(b))),
                   big_of(27076062))
      t == big_add(x, big(<<99, 9999, 9999>>))
  IN  big_small(big_div_small(SubSeq(t, 3, Len(t)), 100))

\* Lines 840-886: <<is_accurate, bases>> for an odd n > L.
is_prime_bases(n, accuracy, cache, lim) ==
  IF big_cmp(n, big_of(1373653)) < 0
    THEN <<TRUE, <<big_of(2), big_of(3)>>>>
  ELSE IF big_cmp(n, big_of(316349281)) < 0
    THEN <<TRUE, <<big_of(11000544), big_of(31481107)>>>>
  ELSE IF big_cmp(n, big(<<1059, 3689, 4253>>)) < 0
    THEN <<TRUE, <<big_of(2), big_of(1005905886), big_of(1340600841)>>>>
  ELSE IF big_cmp(n, big(<<31, 8583, 1721, 8647>>)) < 0
    THEN <<TRUE, <<big_of(2), big_of(642735), big_of(553174392),
                   big(<<30, 4641, 3974>>)>>>>
  ELSE IF big_cmp(n, big(<<3071, 8376, 9235, 7849>>)) < 0
    THEN <<TRUE, <<big_of(2), big_of(75088), big_of(642735), big_of(203659041),
                   big(<<36, 1398, 2119>>)>>>>
  ELSE IF big_cmp(n, big(<<1844, 6744, 737, 955, 1617>>)) < 0
    THEN <<TRUE, <<big_of(2), big_of(325), big_of(9375), big_of(28178),
                   big_of(450775), big_of(9780504), big_of(1795265022)>>>>
  ELSE IF Same(accuracy, None)
    THEN LET stop == 1 + (big_log_more(big_log_more(65536, n), n) \div 2 ^ 15)
         IN  <<TRUE, [j \in 1..(stop - 2) |-> big_of(j + 1)]>>
  ELSE IF accuracy <= Len(FIRST_PRIMES)
    THEN <<FALSE, [j \in 1..max(7, accuracy) |-> big_of(FIRST_PRIMES[j])]>>
  ELSE LET t == first_primes_moremem(accuracy, cache, lim)[1].items
       IN  <<FALSE, [j \in 1..Len(t) |-> big_of(t[j])]>>

\* Lines 890-892.
RECURSIVE big_low_zero_bits(_)
big_low_zero_bits(n1) ==
  IF big_mod_small(n1, 2 ^ 16) # 0 THEN low_zero_bits(big_mod_small(n1, 2 ^ 16))
  ELSE 16 + big_low_zero_bits(big_shr(n1, 16))

\* The integers n whose squares TLC's integers hold.
MaxPowN == 46340

\* Lines 896-905: whether some base makes the loop return False.  pow(b, n2,
\* n) is computed for n <= MaxPowN; beyond it either outcome is taken.
some_base_rejects(n, bases) ==
  IF big_cmp(n, big_of(MaxPowN)) <= 0
    THEN LET m  == big_small(n)
             s  == low_zero_bits(m - 1)
             n2 == (m - 1) \div (2 ^ s)
         IN  {\E j \in 1..Len(bases) :
                ~mr_base_passes(big_small(bases[j]), m, s, n2)}
    ELSE BOOLEAN

\* -n0.
big_neg(n0) == [n0 EXCEPT !.neg = ~n0.neg /\ Len(n0.mag) > 0]

\* n0 < i for an i >= 0.
big_less(n0, i) == n0.neg \/ big_cmp(n0.mag, big_of(i)) < 0

\* Lines 824-827: n after `n = -n'.
is_prime_abs(n0) == IF big_less(n0, 2) THEN big_neg(n0).mag ELSE n0.mag

is_prime_accuracy_unbracketed(n0, accuracy, cache, lim, rejected) ==
  IF big_less(n0, 2) /\ big_less(big_neg(n0), 2) THEN FALSE
  ELSE LET n == is_prime_abs(n0)
       IN  IF ~big_odd(n) THEN n = <<2>>
           ELSE IF big_cmp(n, big_of(lim)) <= 0
             THEN is_prime_lookup(big_small(n), cache)
           ELSE IF n = <<3>> THEN TRUE
           ELSE IF big_low_zero_bits(big_sub(n, <<1>>)) # 0 /\ rejected THEN FALSE
           ELSE IF Same(accuracy, None) THEN TRUE
           ELSE 1

\* is_prime(n0, accuracy) in the cache state (cache, lim), where rejected
\* tells whether a base made the loop return: False, True or 1.
is_prime_accuracy(n0, accuracy, cache, lim, rejected) ==
  IF big_less(n0, 2) /\ big_less(big_neg(n0), 2) THEN FALSE
  ELSE LET n == is_prime_abs(n0)
       IN  IF ~big_odd(n) THEN n = <<2>>
           ELSE IF big_cmp(n, big_of(lim)) <= 0
             THEN is_prime_lookup(big_small(n), cache)
           ELSE IF n = <<3>> THEN TRUE
           ELSE IF big_low_zero_bits(big_sub(n, <<1>>)) # 0 /\ rejected THEN FALSE
           ELSE IF is_prime_bases(n, accuracy, cache, lim)[1] THEN TRUE
           ELSE 1

\* The outcomes of the loop over the bases for the call is_prime(n0, accuracy).
is_prime_rejections(n0, accuracy, cache, lim) ==
  LET n == is_prime_abs(n0)
  IN  IF big_odd(n) /\ big_cmp(n, big_of(max(lim, 3))) > 0
        THEN some_base_rejects(n, is_prime_bases(n, accuracy, cache, lim)[2])
        ELSE {FALSE}

IsPrimeAccuracy(n, accuracy) ==
  /\ pc = "idle"
  /\ \E rejected \in is_prime_rejections(n, accuracy, prime_cache, L) :
       Returns("is_prime", <<n, accuracy>>,
               is_prime_accuracy(n, accuracy, prime_cache, L, rejected))
  /\ UNCHANGED <<cacheVars, small_primes, small_prime_limit, frame, twin, threads, cached_bit_count>>

MaxAccN == 40

\* The integer i as an argument.
signed(i) == [neg |-> i < 0, mag |-> big_of(abs(i))]

\* The bounds of the brackets of lines 840-862.
Brackets ==
  {big_of(1373653), big_of(316349281), big(<<1059, 3689, 4253>>),
   big(<<31, 8583, 1721, 8647>>), big(<<3071, 8376, 9235, 7849>>),
   big(<<1844, 6744, 737, 955, 1617>>)}

\* The bound t and the numbers within MaxOffset of it that no d <= 37
\* divides; 2^64 + 13 is a prime among them.
MaxOffset == 14

Candidates(t) ==
  {m \in {big_add(t, big_of(k)) : k \in 0..MaxOffset}
        \cup {big_sub(t, big_of(k)) : k \in 0..MaxOffset} :
     \/ m = t
     \/ \A d \in 2..37 : big_mod_small(m, d) # 0}

BigNs == {[neg |-> s, mag |-> m] : s \in BOOLEAN, m \in UNION {Candidates(t) : t \in Brackets}}

SmallNs == {signed(i) : i \in -MaxNeg..MaxAccN}

NextAccuracy ==
  \/ ClearPrimeCache
  \/ \E limit \in Args({MaxCacheN}) : EnsurePrimeCacheUpto(limit)
  \/ \E n \in Args(SmallNs \cup BigNs) : \E a \in {0, 7, 8} :
       IsPrimeAccuracy(n, a)
  \/ \E n \in Args(SmallNs \cup BigNs) : IsPrimeAccuracy(n, None)
  \/ Resume

SpecAccuracy == Init /\ [][NextAccuracy]_vars

\* C24: is_prime(n, accuracy) returns 1 only when accuracy is not None,
\* |n| >= 18446744073709551617 and |n| > L; every other result is False or
\* True, and it is the exact answer wherever the model computes the loop:
\* False for -1 <= n <= 1, n == 2 the only even prime, the primality of |n|
\* for |n| <= MaxPowN, and for n <= -2 a result of is_prime(-n).
C24_IsPrimeAccuracy ==
  Returned("is_prime") =>
    LET n0  == call.arg[1]
        acc == call.arg[2]
        m   == n0.mag
    IN  /\ Same(call.ret, 1) =>
             /\ ~Same(acc, None)
             /\ big_cmp(m, big(<<1844, 6744, 737, 955, 1617>>)) >= 0
             /\ big_cmp(m, big_of(call.L0)) > 0
        /\ ~Same(call.ret, 1) => call.ret \in BOOLEAN
        /\ big_cmp(m, <<2>>) < 0 => Same(call.ret, FALSE)
        /\ ~big_odd(m) => Same(call.ret, m = <<2>>)
        /\ big_cmp(m, big_of(MaxPowN)) <= 0 =>
             Same(call.ret, IsPrimeNumber(big_small(m)))
        /\ n0.neg /\ big_cmp(m, <<2>>) >= 0 =>
             \E rejected \in is_prime_rejections(big_neg(n0), acc, prime_cache, L) :
               Same(call.ret,
                    is_prime_accuracy(big_neg(n0), acc, prime_cache, L, rejected))

\* is_prime(-(2^64 + 13), 7) has returned 1.
C24_Witness ==
  /\ Returned("is_prime")
  /\ call.arg[1] = [neg |-> TRUE, mag |-> big(<<1844, 6744, 737, 955, 1629>>)]
  /\ Same(call.arg[2], 7)
  /\ Same(call.ret, 1)

(***************************************************************************)
(* The loop body of is_prime for one base b (lines 888-905), one step per  *)
(* line: r counts the squarings made, i the passes of the inner loop.      *)
(***************************************************************************)
MaxOddN == 61
MaxBase == 64

\* Lines 888-897: n1, s, n2 and a = pow(b, n2, n).
mr_frame(n, b) ==
  LET s == low_zero_bits(n - 1)
  IN  [fn |-> "is_prime", n |-> n, b |-> b, s |-> s, n2 |-> (n - 1) \div (2 ^ s),
       a |-> pow_mod(b, (n - 1) \div (2 ^ s), n), r |-> 0, i |-> 0, ret |-> None]

\* Lines 898-899: `if a not in h: a = (a * a) % n'.
mr_first_square(f) ==
  IF f.a \in {1, f.n - 1}
    THEN <<"done", returned([f EXCEPT !.ret = TRUE])>>
    ELSE <<"mr_loop", [f EXCEPT !.a = (f.a * f.a) % f.n, !.r = 1]>>

\* Lines 900-903: one pass of `for _ in xrange(s - 1)'.
mr_loop_pass(f) ==
  IF f.i < f.s - 1 /\ f.a \notin {1, f.n - 1}
    THEN <<"mr_loop", [f EXCEPT !.a = (f.a * f.a) % f.n, !.r = f.r + 1, !.i = f.i + 1]>>
    ELSE <<"mr_check", f>>

mr_check_in_h(f) == returned([f EXCEPT !.ret = f.a \in {1, f.n - 1}])

\* Lines 904-905: `if a != n1: return False'.
mr_check(f) == returned([f EXCEPT !.ret = f.a = f.n - 1])

MillerRabinBase(n, b) ==
  /\ pc = "idle"
  /\ n > L
  /\ pc' = "mr_test"
  /\ frame' = mr_frame(n, b)
  /\ UNCHANGED <<cacheVars, small_primes, small_prime_limit, call, twin, threads, cached_bit_count>>

MillerRabinFirstSquare ==
  /\ pc = "mr_test"
  /\ pc' = mr_first_square(frame)[1]
  /\ frame' = mr_first_square(frame)[2]
  /\ UNCHANGED <<cacheVars, small_primes, small_prime_limit, call, twin, threads, cached_bit_count>>

MillerRabinLoopPass ==
  /\ pc = "mr_loop"
  /\ pc' = mr_loop_pass(frame)[1]
  /\ frame' = mr_loop_pass(frame)[2]
  /\ UNCHANGED <<cacheVars, small_primes, small_prime_limit, call, twin, threads, cached_bit_count>>

MillerRabinCheck ==
  /\ pc = "mr_check"
  /\ pc' = "done"
  /\ frame' = mr_check(frame)
  /\ UNCHANGED <<cacheVars, small_primes, small_prime_limit, call, twin, threads, cached_bit_count>>

\* The base is accepted (the loop goes on to the next base) or n is composite.
MillerRabinBaseEnds ==
  /\ pc = "done"
  /\ frame.fn = "is_prime"
  /\ Returns("is_prime_base", <<frame.n, frame.b>>, frame.ret)
  /\ UNCHANGED <<cacheVars, small_primes, small_prime_limit, frame, twin, threads, cached_bit_count>>

OddNs == {n \in 5..MaxOddN : n % 2 = 1}

NextMillerRabin ==
  \/ \E n \in Args(OddNs) : \E b \in 0..MaxBase : MillerRabinBase(n, b)
  \/ MillerRabinFirstSquare
  \/ MillerRabinLoopPass
  \/ MillerRabinCheck
  \/ MillerRabinBaseEnds
  \/ Resume

SpecMillerRabin == Init /\ [][NextMillerRabin]_vars

\* The textbook test of the base b on n, with n - 1 = 2^s * d and d odd.
mr_reference(b, n) ==
  LET s == low_zero_bits(n - 1)
      d == (n - 1) \div (2 ^ s)
  IN  \/ pow_mod(b, d, n) \in {1, n - 1}
      \/ \E r \in 1..(s - 1) : pow_mod(b, (2 ^ r) * d, n) = n - 1

\* C25: for every odd n >= 5 and every base b the loop accepts b exactly when
\* the reference test does; a is always b^(2^r * d) mod n with r <= s, and
\* after s squarings, where a is b^(n-1) mod n, a is never n - 1.
C25_MillerRabinLoop ==
  /\ Returned("is_prime_base") =>
       /\ call.ret = mr_reference(call.arg[2], call.arg[1])
       /\ call.ret = mr_base_passes(call.arg[2], call.arg[1], frame.s, frame.n2)
  /\ pc \in {"mr_test", "mr_loop", "mr_check"} =>
       /\ frame.r <= frame.s
       /\ frame.a = pow_mod(frame.b, (2 ^ frame.r) * frame.n2, frame.n)
       /\ frame.r = frame.s => frame.a # frame.n - 1

\* The loop has squared s = 3 times, up to b^(n-1) mod n, and rejected b.
C25_Witness ==
  /\ Returned("is_prime_base")
  /\ frame.s = 3
  /\ frame.r = frame.s
  /\ call.ret = FALSE

(***************************************************************************)
(* The two factorizations with a finder that, asked again and again, does  *)
(* return a nontrivial divisor.                                            *)
(***************************************************************************)
NextSplit ==
  \/ \E limit \in Args({MaxCacheN}) : EnsurePrimeCacheUpto(limit)
  \/ \E n \in Args(1..MaxFactN) : FactorizeCall(n)
  \/ FactorizeStep
  \/ \E d \in Found : FactorizeFind(d)
  \/ \E n \in Args(1..MaxSlowN) : FinderSlowFactorizeCall(n)
  \/ FinderSlowFactorizeStep
  \/ \E d \in Found : FinderSlowFactorizeFind(d)
  \/ FactorizeReturn
  \/ Resume

SpecSplit == Init /\ [][NextSplit]_vars

\* The finder returns a nontrivial divisor.
NontrivialFind ==
  \E d \in Found : d # frame.n /\ (FactorizeFind(d) \/ FinderSlowFactorizeFind(d))

\* The loops go on, and a finder asked often enough finds a divisor.
FairSpecSplit ==
  /\ SpecSplit
  /\ WF_vars(FactorizeStep)
  /\ WF_vars(FinderSlowFactorizeStep)
  /\ WF_vars(NontrivialFind)

\* The step is a pass of `while d == n': the same question is asked again.
Retried == frame'.retries = frame.retries + 1

\* A pass of `while d == n' leaves the question and the locals as they were.
RetryAsksAgain ==
  pc \in {"fact_find", "fsf_find"} /\ Retried =>
    /\ pc' = pc
    /\ frame' = [frame EXCEPT !.retries = frame.retries + 1]

\* Lines 1426-1435: n = d * m, the smaller part in hand, the larger stacked.
FactorizeSplits ==
  pc = "fact_find" /\ ~Retried =>
    LET top == frame'.stack[Len(frame'.stack)]
    IN  /\ frame'.stack = Append(frame.stack, <<top[1], Len(frame.pds)>>)
        /\ frame'.n * top[1] = frame.n
        /\ 1 < frame'.n /\ frame'.n <= top[1] /\ top[1] < frame.n
        /\ frame'.ps = frame.ps

\* Lines 1271-1272: d is stacked and n / d is in hand.
FinderSlowFactorizeSplits ==
  pc = "fsf_find" /\ ~Retried =>
    LET d == frame'.stack[Len(frame'.stack)]
    IN  /\ frame'.stack = Append(frame.stack, d)
        /\ 1 < d /\ d < frame.n /\ frame.n % d = 0
        /\ frame'.n = frame.n \div d
        /\ frame'.ps = frame.ps

\* C26: a finder result d == n splits nothing: the finder is asked again
\* about the same n with stack and ps as they were; every split of
\* factorize leaves n = d * m with 1 < d <= m < n, and every split of
\* finder_slow_factorize stacks a d with 1 < d < n, n % d == 0 and goes on
\* with n / d; and with a finder that finds a divisor in the end, factorize
\* ends with an empty stack.
C26_FinderRetried ==
  /\ [][RetryAsksAgain]_vars
  /\ [][FactorizeSplits]_vars
  /\ [][FinderSlowFactorizeSplits]_vars
  /\ (pc \in {"fact_pop", "fact_test", "fact_find"}
        ~> pc = "done" /\ frame.fn = "factorize" /\ frame.stack = <<>>)

\* After a split, the finder of factorize has returned the cofactor in hand
\* twice in a row and is asked a third time.
C26_Witness ==
  /\ pc = "fact_find"
  /\ frame.retries = 2
  /\ frame.n < frame.seed

\* The work loop of factorize is running.
InWorkLoop == pc \in {"fact_pop", "fact_test", "fact_find"} /\ frame.fn = "factorize"

\* C27: in the work loop of factorize, whatever the finder returns, every
\* stacked item (m, i) is coprime to pds[0..i); after the propagation the
\* cofactor in hand is coprime to every recorded prime, gcd(product(ps), n)
\* == 1; and pds never holds a prime twice.
C27_PropagatedDivisors ==
  /\ InWorkLoop =>
       \A k \in 1..Len(frame.stack) : \A j \in 1..frame.stack[k][2] :
         /\ frame.stack[k][2] <= Len(frame.pds)
         /\ gcd(frame.stack[k][1], frame.pds[j]) = 1
  /\ InWorkLoop /\ pc \in {"fact_test", "fact_find"} =>
       /\ \A j \in 1..Len(frame.pds) : gcd(frame.n, frame.pds[j]) = 1
       /\ gcd(Product(frame.ps), frame.n) = 1
  /\ pc \in {"fact_pop", "fact_test", "fact_find", "done", "returned"}
       /\ frame.fn = "factorize" =>
       \A j, k \in 1..Len(frame.pds) : j # k => frame.pds[j] # frame.pds[k]

\* A cofactor stacked when one prime was known was popped when two were, and
\* the propagation divided the second out of it.
C27_Witness ==
  /\ InWorkLoop /\ pc = "fact_test"
  /\ frame.i = 1
  /\ Len(frame.pds) = 2
  /\ frame.n * frame.pds[2] <= frame.seed \div frame.pds[2]
  /\ frame.ps[Len(frame.ps)] = frame.pds[2]

(***************************************************************************)
(* factorize under every trial-division limit 0..MaxLimit.                 *)
(***************************************************************************)
MaxLimit == 12

InitLimit ==
  /\ prime_cache = <<>>
  /\ prime_cache_limit_ary = <<1>>
  /\ small_primes = <<>>
  /\ small_prime_limit \in 0..MaxLimit
  /\ call = NoCall
  /\ pc = "idle"
  /\ frame = NoFrame
  /\ twin = NoFrame
  /\ threads = <<>>
  /\ cached_bit_count = <<0, 0>>

NextLimit ==
  \/ \E limit \in Args({MaxCacheN}) : EnsurePrimeCacheUpto(limit)
  \/ \E n \in Args(1..MaxFactN) : FactorizeCall(n)
  \/ FactorizeStep
  \/ \E d \in Found : FactorizeFind(d)
  \/ FactorizeReturn
  \/ Resume

SpecLimit == InitLimit /\ [][NextLimit]_vars

\* n has no divisor in 2.._SMALL_PRIME_LIMIT, or none in 2..sqrt_floor(n).
Undivided(n) ==
  \/ \A p \in 2..small_prime_limit : n % p # 0
  \/ \A p \in 2..sqrt_floor(n) : n % p # 0

\* Lines 1380-1383: factorize ended by appending the remainder of the trial
\* division, which is below the cutoff.
EndedByCutoff ==
  /\ pc = "done" /\ frame.fn = "factorize"
  /\ frame.seed = 0 /\ frame.ps # <<>> /\ frame.n # 1

\* Line 1419: the work loop records n because n < _SMALL_PRIME_CUTOFF.
RecordsByCutoff ==
  /\ pc = "fact_test" /\ frame.fn = "factorize"
  /\ frame.n < SMALL_PRIME_CUTOFF
  /\ pc' = "fact_pop"

\* C28: for every value of _SMALL_PRIME_LIMIT, a cofactor that factorize
\* records as prime because it is below (_SMALL_PRIME_LIMIT + 1)^2, after the
\* trial division or in the work loop, is above 1 and prime, and it has no
\* divisor up to _SMALL_PRIME_LIMIT or none up to its square root.
C28_CutoffPrimes ==
  /\ [](EndedByCutoff =>
          /\ frame.n < SMALL_PRIME_CUTOFF
          /\ frame.ps[Len(frame.ps)] = frame.n
          /\ frame.n > 1 /\ IsPrimeNumber(frame.n) /\ Undivided(frame.n))
  /\ [][RecordsByCutoff =>
          /\ frame'.ps = Append(frame.ps, frame.n)
          /\ frame.n > 1 /\ IsPrimeNumber(frame.n) /\ Undivided(frame.n)]_vars

\* With _SMALL_PRIME_LIMIT = 7 the work loop has recorded 11, a part of the
\* cofactor 121 the finder split, as prime because 11 < 64.
C28_Witness ==
  /\ pc = "fact_pop" /\ frame.fn = "factorize"
  /\ small_prime_limit = 7
  /\ frame.seed = 121
  /\ frame.pds # <<>> /\ frame.pds[Len(frame.pds)] = 11

(***************************************************************************)
(* factorize with its trial division run pass by pass (lines 1355-1375);   *)
(* the frame holds n, q, ps, pds and the index j of the next small prime.  *)
(***************************************************************************)
\* Lines 1332-1355 for a composite n: ps = pds = [], q = sqrt_floor(n).
trial_frame(n) ==
  [fn |-> "factorize", n0 |-> n, n |-> n, q |-> sqrt_floor(n), ps |-> <<>>,
   pds |-> <<>>, j |-> 1, stack |-> <<>>]

\* Lines 1356-1364.
trial_twos(f) ==
  LET st == strip_twos([n |-> f.n, q |-> f.q, ps |-> f.ps, pds |-> f.pds])
  IN  [f EXCEPT !.n = st.n, !.q = st.q, !.ps = st.ps, !.pds = st.pds]

trial_pass_appends_once(f, small) ==
  IF f.j > Len(small) \/ small[f.j] > f.q THEN <<"trial_end", f>>
  ELSE IF f.n % small[f.j] = 0
    THEN LET m == f.n \div small[f.j]
         IN  <<"trial_loop", [f EXCEPT !.n = divide_out(m, small[f.j], <<>>)[1],
                                       !.q = sqrt_floor(divide_out(m, small[f.j], <<>>)[1]),
                                       !.ps = Append(f.ps, small[f.j]),
                                       !.pds = Append(f.pds, small[f.j]),
                                       !.j = f.j + 1]>>
  ELSE <<"trial_loop", [f EXCEPT !.j = f.j + 1]>>

\* Lines 1365-1375: one pass of `for p in _small_primes_for_factorize'.
trial_pass(f, small) ==
  IF f.j > Len(small) \/ small[f.j] > f.q THEN <<"trial_end", f>>
  ELSE IF f.n % small[f.j] = 0
    THEN LET r == divide_out(f.n, small[f.j], f.ps)
         IN  <<"trial_loop", [f EXCEPT !.n = r[1], !.q = sqrt_floor(r[1]),
                                       !.ps = r[2],
                                       !.pds = Append(f.pds, small[f.j]),
                                       !.j = f.j + 1]>>
  ELSE <<"trial_loop", [f EXCEPT !.j = f.j + 1]>>

\* factorize(n) for a composite n, up to the trial division.
TrialEnter(n) ==
  /\ pc = "idle"
  /\ n > 1 /\ ~is_prime(n, prime_cache, L)
  /\ pc' = "trial_twos"
  /\ frame' = trial_frame(n)
  /\ small_primes' = small_primes_filled(small_primes, prime_cache, L)
  /\ UNCHANGED <<cacheVars, small_prime_limit, call, twin, threads, cached_bit_count>>

TrialTwos ==
  /\ pc = "trial_twos"
  /\ pc' = "trial_loop"
  /\ frame' = trial_twos(frame)
  /\ UNCHANGED <<cacheVars, small_primes, small_prime_limit, call, twin, threads,
                 cached_bit_count>>

TrialPass ==
  /\ pc = "trial_loop"
  /\ pc' = trial_pass(frame, small_primes)[1]
  /\ frame' = trial_pass(frame, small_primes)[2]
  /\ UNCHANGED <<cacheVars, small_primes, small_prime_limit, call, twin, threads,
                 cached_bit_count>>

\* Lines 1376-1399: the end of factorize, or the start of its work loop.
TrialEnd ==
  /\ pc = "trial_end"
  /\ LET e == fact_entry(frame.n0, prime_cache, L, small_primes)
         t == fact_entry(frame.n0, <<>>, 1, <<>>)
     IN  /\ pc' = e[1]
         /\ frame' = e[2]
         /\ twin' = [pc |-> t[1], frame |-> t[2]]
  /\ UNCHANGED <<cacheVars, small_primes, small_prime_limit, call, threads,
                 cached_bit_count>>

NextTrial ==
  \/ \E limit \in Args({MaxCacheN}) : EnsurePrimeCacheUpto(limit)
  \/ \E n \in Args(1..MaxFactN) : TrialEnter(n)
  \/ TrialTwos
  \/ TrialPass
  \/ TrialEnd
  \/ FactorizeStep
  \/ \E d \in Found : FactorizeFind(d)
  \/ FactorizeReturn
  \/ Resume

SpecTrial == InitLimit /\ [][NextTrial]_vars

\* The product of the cofactors of the stacked items.
RECURSIVE StackProduct(_)
StackProduct(stack) ==
  IF stack = <<>> THEN 1 ELSE stack[1][1] * StackProduct(Tail(stack))

\* The cofactor in hand: n, and 1 at the top of `while stack', where the n
\* of the last pass has been recorded or was 1.
InHand == IF pc = "fact_pop" THEN 1 ELSE frame.n

\* C29: at every pass boundary of the trial division and of the work loop
\* of factorize, product(ps) * the cofactor in hand * the product of the
\* stacked cofactors is the argument n, and every stacked cofactor is >= 2;
\* the trial division run pass by pass ends where lines 1355-1375 end.
C29_Conservation ==
  /\ pc \in {"trial_twos", "trial_loop", "trial_end", "fact_pop", "fact_test",
             "fact_find"} /\ frame.fn = "factorize" =>
       /\ Product(frame.ps) * InHand * StackProduct(frame.stack) = frame.n0
       /\ \A k \in 1..Len(frame.stack) : frame.stack[k][1] >= 2
  /\ pc = "trial_end" =>
       LET s0 == [n |-> frame.n0, q |-> sqrt_floor(frame.n0), ps |-> <<>>,
                  pds |-> <<>>]
           st == trial_division(strip_twos(s0), small_primes, 1)
       IN  st = [n |-> frame.n, q |-> frame.q, ps |-> frame.ps, pds |-> frame.pds]

\* The trial division has divided out two small primes, one of them twice,
\* and goes on with a cofactor above 1.
C29_Witness ==
  /\ pc = "trial_loop"
  /\ Len(frame.pds) = 2
  /\ Len(frame.ps) = 3
  /\ frame.n > 1

(***************************************************************************)
(* The table of small primes of factorize, filled from the prime cache     *)
(* that two unlocked cache-mutating calls have left behind.                *)
(***************************************************************************)
\* The calls the two threads make.
TableMutators == {ensure_thread(limit) : limit \in 1..MaxThreadN} \cup {clear_thread}

InitTable ==
  /\ \E a \in TableMutators, b \in TableMutators :
       threads = <<a, b>>
  /\ prime_cache = <<>>
  /\ prime_cache_limit_ary = <<1>>
  /\ small_primes = <<>>
  /\ small_prime_limit \in 3..(SMALL_PRIME_LIMIT + 2)
  /\ call = NoCall
  /\ pc = "threads"
  /\ frame = NoFrame
  /\ twin = NoFrame
  /\ cached_bit_count = <<0, 0>>

\* Both threads have returned; the process goes on with one caller.
ThreadsJoin ==
  /\ pc = "threads"
  /\ \A t \in DOMAIN threads : threads[t].pc = "done"
  /\ pc' = "idle"
  /\ threads' = <<>>
  /\ UNCHANGED <<cacheVars, small_primes, small_prime_limit, call, frame, twin,
                 cached_bit_count>>

\* factorize(n), its work-loop steps and its finder calls in this process
\* alone.
FactorizeAlone(n) ==
  /\ pc = "idle"
  /\ LET e == fact_entry(n, prime_cache, L, small_primes)
     IN  /\ pc' = e[1]
         /\ frame' = e[2]
         /\ small_primes' = e[3]
  /\ UNCHANGED <<cacheVars, small_prime_limit, call, twin, threads, cached_bit_count>>

FactorizeAloneStep ==
  /\ pc \in {"fact_pop", "fact_test"}
  /\ LET e == fact_step(pc, frame, 0, prime_cache, L)
     IN  pc' = e[1] /\ frame' = e[2]
  /\ UNCHANGED <<cacheVars, small_primes, small_prime_limit, call, twin, threads,
                 cached_bit_count>>

FactorizeAloneFind(d) ==
  /\ pc = "fact_find"
  /\ d \in FinderResults(frame.n)
  /\ d = frame.n => frame.retries < MaxRetries
  /\ LET e == fact_step(pc, frame, d, prime_cache, L)
     IN  pc' = e[1] /\ frame' = e[2]
  /\ UNCHANGED <<cacheVars, small_primes, small_prime_limit, call, twin, threads,
                 cached_bit_count>>

NextTable ==
  \/ \E t \in DOMAIN threads : EnsureStep(t)
  \/ \E t \in DOMAIN threads : PrimesUptoStep(t)
  \/ \E t \in DOMAIN threads : ClearStep(t)
  \/ ThreadsJoin
  \/ ClearPrimeCache
  \/ \E limit \in Args({MaxCacheN}) : EnsurePrimeCacheUpto(limit)
  \/ \E n \in Args(1..MaxFactN) : FactorizeAlone(n)
  \/ FactorizeAloneStep
  \/ \E d \in Found : FactorizeAloneFind(d)
  \/ FactorizeReturn
  \/ Resume

SpecTable == InitTable /\ [][NextTable]_vars

\* C30: once _small_primes_for_factorize is non-empty, it is the ascending
\* list of exactly the odd primes <= _SMALL_PRIME_LIMIT, whatever state of
\* the prime cache the public operations had reached when it was filled.
C30_TableHoldsOddPrimes ==
  small_primes # <<>> =>
    IsPrimeListUpto(<<2>> \o small_primes, small_prime_limit)

\* A filled table is changed by no step: not by factorize, not by
\* clear_prime_cache, not by a rebuild of the cache.
TableKept == small_primes # <<>> => small_primes' = small_primes

C30_TableKept == [][TableKept]_vars

====
